---- MODULE Spec2Model ----
(***************************************************************************)
(* Model of VirtualFDWManager (src/core/fdw_manager.py): the configuration *)
(* operations, the SQL parser, the table resolver, the per-backend fetch,  *)
(* the merger, the post-merge filter and the connection map.               *)
(*                                                                         *)
(* Python strings are tuples of one-character strings, so that split,      *)
(* find, startswith and the regular expressions of the source are computed *)
(* on the text and not assumed.                                            *)
(***************************************************************************)
EXTENDS Integers, Sequences, FiniteSets, TLC

\* ------------------------------------------------------------------------
\* Python string primitives
\* ------------------------------------------------------------------------

Min(S) == CHOOSE x \in S : \A y \in S : x <= y

\* None, and the empty string: both are falsy in the tests of the source.
None == <<>>

LowerOf(c) ==
  CASE c = "A" -> "a" [] c = "B" -> "b" [] c = "C" -> "c" [] c = "D" -> "d"
    [] c = "E" -> "e" [] c = "F" -> "f" [] c = "G" -> "g" [] c = "H" -> "h"
    [] c = "I" -> "i" [] c = "J" -> "j" [] c = "K" -> "k" [] c = "L" -> "l"
    [] c = "M" -> "m" [] c = "N" -> "n" [] c = "O" -> "o" [] c = "P" -> "p"
    [] c = "Q" -> "q" [] c = "R" -> "r" [] c = "S" -> "s" [] c = "T" -> "t"
    [] c = "U" -> "u" [] c = "V" -> "v" [] c = "W" -> "w" [] c = "X" -> "x"
    [] c = "Y" -> "y" [] c = "Z" -> "z" [] OTHER -> c

\* str.lower()
Lower(s) == [i \in 1..Len(s) |-> LowerOf(s[i])]

\* the characters that are not \w in the texts of this model
NonWord == {" ", ".", ",", "=", ">", "<", "'", "\"", "*", "(", ")", ";", "%"}

IsWordChar(c) == c \notin NonWord

\* str.find(sub, start), 1-based; 0 when sub does not occur
Find(s, sub, start) ==
  LET occ == {i \in start..(Len(s) - Len(sub) + 1) :
                SubSeq(s, i, i + Len(sub) - 1) = sub}
  IN IF occ = {} THEN 0 ELSE Min(occ)

\* sub in s
Contains(s, sub) == Find(s, sub, 1) # 0

StartsWith(s, p) == Len(p) <= Len(s) /\ SubSeq(s, 1, Len(p)) = p

EndsWith(s, p) == Len(p) <= Len(s) /\ SubSeq(s, Len(s) - Len(p) + 1, Len(s)) = p

RECURSIVE LStrip(_)
LStrip(s) == IF s # <<>> /\ Head(s) = " " THEN LStrip(Tail(s)) ELSE s

RECURSIVE RStrip(_)
RStrip(s) ==
  IF s # <<>> /\ s[Len(s)] = " " THEN RStrip(SubSeq(s, 1, Len(s) - 1)) ELSE s

\* str.strip()
Strip(s) == RStrip(LStrip(s))

\* str.split(sep): never empty, keeps empty pieces
RECURSIVE SplitOn(_, _)
SplitOn(s, sep) ==
  LET i == Find(s, sep, 1)
  IN IF i = 0 THEN <<s>>
     ELSE <<SubSeq(s, 1, i - 1)>> \o SplitOn(SubSeq(s, i + Len(sep), Len(s)), sep)

\* str.split(sep, 1)
SplitOnce(s, sep) ==
  LET i == Find(s, sep, 1)
  IN IF i = 0 THEN <<s>>
     ELSE <<SubSeq(s, 1, i - 1), SubSeq(s, i + Len(sep), Len(s))>>

\* the pieces of a list that are not empty
RECURSIVE NonEmpty(_)
NonEmpty(ss) ==
  IF ss = <<>> THEN <<>>
  ELSE (IF Head(ss) = <<>> THEN <<>> ELSE <<Head(ss)>>) \o NonEmpty(Tail(ss))

\* str.split(): on runs of blanks, no empty pieces
SplitWs(s) == NonEmpty(SplitOn(s, <<" ">>))

\* sep.join(ss)
RECURSIVE JoinWith(_, _)
JoinWith(ss, sep) ==
  IF ss = <<>> THEN <<>>
  ELSE IF Len(ss) = 1 THEN ss[1]
  ELSE ss[1] \o sep \o JoinWith(Tail(ss), sep)

\* s.split('.')[-1]
LastSegment(s) == LET p == SplitOn(s, <<".">>) IN p[Len(p)]

\* re.sub(r'\s+', ' ', s).strip()
NormalizeSpaces(s) == JoinWith(SplitWs(s), <<" ">>)

\* s.replace(old, new)
Replace(s, old, new) == JoinWith(SplitOn(s, old), new)

\* the elements of a list
Range(f) == {f[i] : i \in DOMAIN f}

\* the lists without repetition over a finite set
RECURSIVE Orders(_)
Orders(S) ==
  IF S = {} THEN {<<>>}
  ELSE UNION {{<<x>> \o o : o \in Orders(S \ {x})} : x \in S}

\* ------------------------------------------------------------------------
\* Literal texts of the source
\* ------------------------------------------------------------------------

kw_select == <<"s", "e", "l", "e", "c", "t">>
kw_from == <<"f", "r", "o", "m">>
kw_where == <<"w", "h", "e", "r", "e">>
kw_join == <<"j", "o", "i", "n">>
kw_on == <<"o", "n">>
kw_as == <<"a", "s">>
kw_group_by == <<"g", "r", "o", "u", "p", " ", "b", "y">>
kw_order_by == <<"o", "r", "d", "e", "r", " ", "b", "y">>
kw_limit == <<"l", "i", "m", "i", "t">>
kw_inner == <<"i", "n", "n", "e", "r">>
kw_outer == <<"o", "u", "t", "e", "r">>
kw_left == <<"l", "e", "f", "t">>
kw_right == <<"r", "i", "g", "h", "t">>
kw_full == <<"f", "u", "l", "l">>
kw_cross == <<"c", "r", "o", "s", "s">>
Dot == <<".">>
Comma == <<",">>
Space == <<" ">>
Star == <<"*">>
Underscore == <<"_">>
EqSign == <<"=">>
AndSep == <<" ", "A", "N", "D", " ">>

\* the join-type words an alias of the FROM list must not be (line 706)
JoinTypeWords == {kw_inner, kw_outer, kw_left, kw_right, kw_full, kw_cross}

\* the terminators of a WHERE clause, in the order the source tries them
WhereTerminators == <<kw_group_by, kw_order_by, kw_limit>>

\* ------------------------------------------------------------------------
\* parse_sql
\* ------------------------------------------------------------------------

\* the first index at or after start where word w stands between two \b
FindWord(s, w, start) ==
  LET occ == {i \in start..(Len(s) - Len(w) + 1) :
                /\ SubSeq(s, i, i + Len(w) - 1) = w
                /\ (i = 1 \/ ~IsWordChar(s[i - 1]))
                /\ (i + Len(w) > Len(s) \/ ~IsWordChar(s[i + Len(w)]))}
  IN IF occ = {} THEN 0 ELSE Min(occ)

\* _split_columns: commas outside quotes and parentheses
RECURSIVE SplitColumnsScan(_, _, _, _, _)
SplitColumnsScan(s, i, current, in_quotes, in_parentheses) ==
  IF i > Len(s)
  THEN (IF current # <<>> THEN <<Strip(current)>> ELSE <<>>)
  ELSE LET c == s[i] IN
    IF c = "'" \/ c = "\""
    THEN SplitColumnsScan(s, i + 1, Append(current, c), ~in_quotes, in_parentheses)
    ELSE IF c = "(" /\ ~in_quotes
    THEN SplitColumnsScan(s, i + 1, Append(current, c), in_quotes, in_parentheses + 1)
    ELSE IF c = ")" /\ ~in_quotes /\ in_parentheses > 0
    THEN SplitColumnsScan(s, i + 1, Append(current, c), in_quotes, in_parentheses - 1)
    ELSE IF c = "," /\ ~in_quotes /\ in_parentheses = 0
    THEN <<Strip(current)>> \o SplitColumnsScan(s, i + 1, <<>>, in_quotes, in_parentheses)
    ELSE SplitColumnsScan(s, i + 1, Append(current, c), in_quotes, in_parentheses)

SplitColumns(columns_str) == SplitColumnsScan(columns_str, 1, <<>>, FALSE, 0)

\* a text that (\w+\.\w+|\w+) matches as a whole
IsWord(w) == w # <<>> /\ \A i \in 1..Len(w) : IsWordChar(w[i])

IsTableWord(w) ==
  LET p == SplitOn(w, Dot)
  IN Len(p) \in {1, 2} /\ \A i \in 1..Len(p) : IsWord(p[i])

\* the condition group ([^)]+): up to the first closing parenthesis
UpToParen(s) ==
  LET i == Find(s, <<")">>, 1) IN IF i = 0 THEN s ELSE SubSeq(s, 1, i - 1)

\* join_pattern.finditer on the normalized statement, as a list of its words.
\* After the JOIN word: the table, then either ON (no alias) or AS alias ON.
\* An alias written without AS leaves (\w+)? facing a blank: no match there,
\* and the scan goes on to the next JOIN word.  A match takes the rest of the
\* statement up to a closing parenthesis as its condition; the statements of
\* this model hold no parenthesis, so the first match is the only one.
RECURSIVE JoinMatches(_, _)
JoinMatches(words, i) ==
  IF i > Len(words) THEN <<>>
  ELSE IF Lower(words[i]) # kw_join \/ i + 1 > Len(words) \/ ~IsTableWord(words[i + 1])
  THEN JoinMatches(words, i + 1)
  ELSE IF i + 4 < Len(words) + 1 /\ Lower(words[i + 2]) = kw_as
          /\ IsWord(words[i + 3]) /\ Lower(words[i + 4]) = kw_on
          /\ i + 5 <= Len(words)
  THEN LET rest == JoinWith(SubSeq(words, i + 5, Len(words)), Space)
       IN <<[table |-> words[i + 1], alias |-> words[i + 3],
             condition |-> Strip(UpToParen(rest))]>>
  ELSE IF i + 3 <= Len(words) /\ Lower(words[i + 2]) = kw_on
  THEN LET rest == JoinWith(SubSeq(words, i + 3, Len(words)), Space)
       IN <<[table |-> words[i + 1], alias |-> None,
             condition |-> Strip(UpToParen(rest))]>>
  ELSE JoinMatches(words, i + 1)

\* dict[k] = v on a dict kept as the list of its items in insertion order
DictSet(d, k, v) ==
  IF \E i \in 1..Len(d) : d[i][1] = k
  THEN [i \in 1..Len(d) |-> IF d[i][1] = k THEN <<k, v>> ELSE d[i]]
  ELSE Append(d, <<k, v>>)

DictKeys(d) == {d[i][1] : i \in 1..Len(d)}

DictGet(d, k) == d[CHOOSE i \in 1..Len(d) : d[i][1] = k][2]

\* lines 659-668 and 711-719: the text after WHERE, cut at the first
\* terminator (in the order of the list) that occurs in it
RECURSIVE CutAtTerminator(_, _)
CutAtTerminator(where_clause, k) ==
  IF k > Len(WhereTerminators) THEN where_clause
  ELSE LET pos == Find(Lower(where_clause), WhereTerminators[k], 1)
       IN IF pos # 0 THEN Strip(SubSeq(where_clause, 1, pos - 1))
          ELSE CutAtTerminator(where_clause, k + 1)

WhereClause(nq, where_idx) ==
  CutAtTerminator(Strip(SubSeq(nq, where_idx + 5, Len(nq))), 1)

\* re.sub(r'\bon\b.+', '', tables_part): from the first word ON that has a
\* character after it, to the end
RemoveOn(tables_part) ==
  LET i == FindWord(Lower(tables_part), kw_on, 1)
  IN IF i # 0 /\ i + 2 <= Len(tables_part) THEN SubSeq(tables_part, 1, i - 1)
     ELSE tables_part

\* re.split(r',|\bjoin\b', tables_part)
RECURSIVE SplitFromList(_)
SplitFromList(s) ==
  LET c == Find(s, Comma, 1)
      j == FindWord(Lower(s), kw_join, 1)
      first == IF c = 0 THEN j ELSE IF j = 0 THEN c ELSE IF c < j THEN c ELSE j
      width == IF first = c /\ c # 0 THEN 1 ELSE 4
  IN IF first = 0 THEN <<s>>
     ELSE <<SubSeq(s, 1, first - 1)>>
          \o SplitFromList(SubSeq(s, first + width, Len(s)))

\* alias.strip('"\'')
RECURSIVE StripQuotes(_)
StripQuotes(s) ==
  IF s # <<>> /\ Head(s) \in {"'", "\""} THEN StripQuotes(Tail(s))
  ELSE IF s # <<>> /\ s[Len(s)] \in {"'", "\""}
  THEN StripQuotes(SubSeq(s, 1, Len(s) - 1))
  ELSE s

\* lines 680-707: one fragment of the FROM list; <<table, alias>> or <<>>
FromItem(token) ==
  LET parts == SplitWs(Strip(token))
      raw == IF Len(parts) > 1
             THEN (IF Lower(parts[2]) = kw_as /\ Len(parts) > 2
                   THEN parts[3] ELSE parts[2])
             ELSE None
      alias == IF raw # None /\ Lower(StripQuotes(raw)) \notin JoinTypeWords
               THEN StripQuotes(raw) ELSE None
  IN IF parts = <<>> THEN <<>> ELSE <<parts[1], alias>>

RECURSIVE AddJoinAliases(_, _)
AddJoinAliases(aliases, joins) ==
  IF joins = <<>> THEN aliases
  ELSE AddJoinAliases(
         IF Head(joins).alias # None
         THEN DictSet(aliases, Head(joins).alias, Head(joins).table) ELSE aliases,
         Tail(joins))

RECURSIVE AddFromAliases(_, _)
AddFromAliases(aliases, tokens) ==
  IF tokens = <<>> THEN aliases
  ELSE LET it == FromItem(Head(tokens))
       IN AddFromAliases(
            IF it # <<>> /\ it[2] # None THEN DictSet(aliases, it[2], it[1])
            ELSE aliases,
            Tail(tokens))

\* parse_sql; ok = FALSE stands for the ValueError of line 617
ParseSql(query) ==
  LET nq == NormalizeSpaces(query)
      ql == Lower(nq)
      select_idx == Find(ql, kw_select, 1)
      from_idx == IF select_idx = 0 THEN 0 ELSE Find(ql, kw_from, select_idx)
  IN IF select_idx = 0 \/ from_idx = 0
     THEN [ok |-> FALSE]
     ELSE
       LET columns == SplitColumns(Strip(SubSeq(nq, select_idx + 6, from_idx - 1)))
           from_part == SubSeq(nq, from_idx + 4, Len(nq))
           joins == JoinMatches(SplitOn(nq, Space), 1)
           where_idx == Find(ql, kw_where, from_idx + 4)
           tokens == SplitFromList(RemoveOn(from_part))
           items == {FromItem(tokens[i]) : i \in 1..Len(tokens)} \ {<<>>}
       IN [ok |-> TRUE,
           columns |-> columns,
           select_all |-> \E i \in 1..Len(columns) : Contains(columns[i], Star),
           tables |-> {joins[i].table : i \in 1..Len(joins)}
                        \cup {it[1] : it \in items},
           aliases |-> AddFromAliases(AddJoinAliases(<<>>, joins), tokens),
           joins |-> joins,
           where |-> IF where_idx # 0 THEN WhereClause(nq, where_idx) ELSE <<>>]

\* ------------------------------------------------------------------------
\* Table resolver, join rule registry, grouping
\* ------------------------------------------------------------------------

public == <<"p", "u", "b", "l", "i", "c">>
msg_parse == <<"n", "o", " ", "S", "E", "L", "E", "C", "T", " ", "o", "r", " ", "F", "R", "O", "M">>
msg_ambiguous == <<"a", "m", "b", "i", "g", "u", "o", "u", "s", " ", "t", "a", "b", "l", "e", " ">>
msg_unknown == <<"u", "n", "k", "n", "o", "w", "n", " ", "t", "a", "b", "l", "e", " ">>
msg_no_connection_key == <<"n", "o", " ", "c", "o", "n", "n", "e", "c", "t", "i", "o", "n", " ", "k", "e", "y", " ">>
msg_connect == <<"c", "o", "n", "n", "e", "c", "t", " ", "e", "r", "r", "o", "r", " ">>
msg_key_error == <<"K", "e", "y", "E", "r", "r", "o", "r", " ">>
ColonSp == <<":", " ">>
CommaSp == <<",", " ">>

\* line 276: the mapping keys whose last dot-segment is that of full_table,
\* in the order of the mapping
RECURSIVE Candidates(_, _)
Candidates(mapping, table_name_only) ==
  IF mapping = <<>> THEN <<>>
  ELSE (IF LastSegment(Head(mapping)[1]) = table_name_only
        THEN <<Head(mapping)[1]>> ELSE <<>>)
       \o Candidates(Tail(mapping), table_name_only)

\* ResolveName taking the first of several candidates
ResolveNameFirstCandidate(mapping, full_table) ==
  IF full_table \in DictKeys(mapping)
  THEN [ok |-> TRUE, key |-> full_table]
  ELSE LET candidates == Candidates(mapping, LastSegment(full_table))
       IN IF Len(candidates) >= 1 THEN [ok |-> TRUE, key |-> candidates[1]]
          ELSE [ok |-> FALSE, kind |-> "unknown", table |-> full_table,
                candidates |-> candidates,
                error |-> msg_unknown \o full_table]

\* lines 273-283: the mapping key used for one identifier of the query
ResolveName(mapping, full_table) ==
  IF full_table \in DictKeys(mapping)
  THEN [ok |-> TRUE, key |-> full_table]
  ELSE LET candidates == Candidates(mapping, LastSegment(full_table))
       IN IF Len(candidates) = 1 THEN [ok |-> TRUE, key |-> candidates[1]]
          ELSE IF Len(candidates) > 1
          THEN [ok |-> FALSE, kind |-> "ambiguous", table |-> full_table,
                candidates |-> candidates,
                error |-> msg_ambiguous \o full_table \o ColonSp
                          \o JoinWith(candidates, CommaSp)]
          ELSE [ok |-> FALSE, kind |-> "unknown", table |-> full_table,
                candidates |-> candidates,
                error |-> msg_unknown \o full_table]

\* line 295: the first alias of the query bound to exactly this key
RECURSIVE AliasOf(_, _)
AliasOf(aliases, full_table) ==
  IF aliases = <<>> THEN None
  ELSE IF Head(aliases)[2] = full_table THEN Head(aliases)[1]
  ELSE AliasOf(Tail(aliases), full_table)

\* lines 285-305: the binding of one resolved table
Binding(mapping, aliases, full_table) ==
  LET parts == SplitOnce(full_table, Dot)
      schema == IF Contains(full_table, Dot) THEN parts[1] ELSE public
      table_name == IF Contains(full_table, Dot) THEN parts[2] ELSE full_table
      alias == AliasOf(aliases, full_table)
  IN [connection |-> DictGet(mapping, full_table),
      schema |-> schema,
      table_name |-> table_name,
      alias |-> IF alias = None THEN table_name ELSE alias,
      columns |-> <<>>]

\* _resolve_table_mappings over the tables in the order the set yields them;
\* the first identifier that does not resolve raises
RECURSIVE ResolveTableMappings(_, _, _, _)
ResolveTableMappings(mapping, aliases, tables, table_info) ==
  IF tables = <<>> THEN [ok |-> TRUE, table_info |-> table_info]
  ELSE LET r == ResolveName(mapping, Head(tables))
       IN IF ~r.ok THEN r
          ELSE ResolveTableMappings(mapping, aliases, Tail(tables),
                 DictSet(table_info, r.key, Binding(mapping, aliases, r.key)))

DictKeyList(d) == [i \in 1..Len(d) |-> d[i][1]]

\* _group_tables_by_connection: connection -> its tables, both in the order
\* of table_info
RECURSIVE GroupTablesByConnection(_, _)
GroupTablesByConnection(table_info, conn_groups) ==
  IF table_info = <<>> THEN conn_groups
  ELSE LET c == Head(table_info)[2].connection
           old == IF c \in DictKeys(conn_groups) THEN DictGet(conn_groups, c) ELSE <<>>
       IN GroupTablesByConnection(Tail(table_info),
            DictSet(conn_groups, c, Append(old, Head(table_info)[1])))

\* the rules with at least one table among the tables of the query
RECURSIVE ApplicableJoinRulesAny(_, _)
ApplicableJoinRulesAny(rules, table_info) ==
  IF rules = <<>> THEN <<>>
  ELSE (IF Range(Head(rules).tables) \cap DictKeys(table_info) # {}
        THEN <<Head(rules)>> ELSE <<>>)
       \o ApplicableJoinRulesAny(Tail(rules), table_info)

\* _get_applicable_join_rules
RECURSIVE ApplicableJoinRules(_, _)
ApplicableJoinRules(rules, table_info) ==
  IF rules = <<>> THEN <<>>
  ELSE (IF Range(Head(rules).tables) \subseteq DictKeys(table_info)
        THEN <<Head(rules)>> ELSE <<>>)
       \o ApplicableJoinRules(Tail(rules), table_info)

\* _check_db_join_possible
CheckDbJoinPossible(tables, join_rules) ==
  /\ Len(tables) # 1
  /\ \E i \in 1..Len(join_rules) :
        /\ Range(tables) \subseteq Range(join_rules[i].tables)
        /\ join_rules[i].execute_in_db

\* line 779: the test that attributes one fragment to the table of an alias
FragmentBelongs(token, table_alias) ==
  \/ Contains(token, table_alias \o Dot)
  \/ (~Contains(token, Dot) /\ Contains(token, EqSign))

RECURSIVE KeepFragments(_, _)
KeepFragments(tokens, table_alias) ==
  IF tokens = <<>> THEN <<>>
  ELSE (IF Strip(Head(tokens)) # <<>> /\ FragmentBelongs(Strip(Head(tokens)), table_alias)
        THEN <<Strip(Head(tokens))>> ELSE <<>>)
       \o KeepFragments(Tail(tokens), table_alias)

\* _extract_table_where
ExtractTableWhere(where_clause, table_alias) ==
  IF where_clause = <<>> THEN <<>>
  ELSE JoinWith(KeepFragments(SplitOn(where_clause, AndSep), table_alias), AndSep)

\* _get_columns_for_table
RECURSIVE ColumnsScan(_, _, _, _)
ColumnsScan(columns, table_alias, full_table, result) ==
  IF columns = <<>> THEN (IF result # <<>> THEN result ELSE <<Star>>)
  ELSE LET col == Head(columns)
           parts == SplitOn(col, Dot)
       IN IF col = Star THEN <<Star>>
          ELSE ColumnsScan(Tail(columns), table_alias, full_table,
                 IF Contains(col, Dot)
                 THEN (IF Len(parts) = 2 /\ parts[1] = table_alias
                       THEN Append(result, parts[2])
                       ELSE IF Len(parts) = 3 /\ parts[1] \o Dot \o parts[2] = full_table
                       THEN Append(result, parts[3])
                       ELSE result)
                 ELSE Append(result, col))

GetColumnsForTable(columns, table_alias, full_table) ==
  ColumnsScan(columns, table_alias, full_table, <<>>)

\* ------------------------------------------------------------------------
\* DataFrames: [cols: list of labels, rows: list of lists of values]
\* ------------------------------------------------------------------------

NullText == <<"N", "U", "L", "L">>
DropSuffix == <<"_", "D", "R", "O", "P">>
sql_select == <<"S", "E", "L", "E", "C", "T", " ">>
sql_from == <<" ", "F", "R", "O", "M", " ">>
sql_where == <<" ", "W", "H", "E", "R", "E", " ">>
sql_in == <<" ", "I", "N", " ", "%", "s">>
GtSign == <<">">>

\* the missing value of pandas; no text equals it
NaN == <<"NaN">>

EmptyFrame == [cols |-> <<>>, rows |-> <<>>]

\* the position of the first column with this label
ColIndex(cols, c) == Min({i \in 1..Len(cols) : cols[i] = c})

\* the sub-list of s at the positions that satisfy keep, in order
RECURSIVE SelectIdx(_, _, _)
SelectIdx(s, keep, i) ==
  IF i > Len(s) THEN <<>>
  ELSE (IF keep[i] THEN <<s[i]>> ELSE <<>>) \o SelectIdx(s, keep, i + 1)

\* df[labels]
Project(df, labels) ==
  [cols |-> labels,
   rows |-> [r \in 1..Len(df.rows) |->
               [j \in 1..Len(labels) |-> df.rows[r][ColIndex(df.cols, labels[j])]]]]

\* df.columns = [f"{alias}.{col}" ...], lines 432 and 498
PrefixColumns(df, alias) ==
  [cols |-> [j \in 1..Len(df.cols) |-> alias \o Dot \o df.cols[j]], rows |-> df.rows]

\* df[col].unique().tolist(): the distinct values in order of first appearance
RECURSIVE Unique(_, _)
Unique(vals, seen) ==
  IF vals = <<>> THEN <<>>
  ELSE IF Head(vals) \in seen THEN Unique(Tail(vals), seen)
  ELSE <<Head(vals)>> \o Unique(Tail(vals), seen \cup {Head(vals)})

Column(df, c) == [r \in 1..Len(df.rows) |-> df.rows[r][ColIndex(df.cols, c)]]

RECURSIVE Flatten(_)
Flatten(ss) == IF ss = <<>> THEN <<>> ELSE Head(ss) \o Flatten(Tail(ss))

NaNRow(n) == [j \in 1..n |-> NaN]

\* pd.merge with how='inner': a left row without equal keys on the right
\* is dropped
PdMergeInner(left, right, left_on, right_on) ==
  LET missR == {i \in 1..Len(right_on) : right_on[i] \notin Range(right.cols)}
      missL == {i \in 1..Len(left_on) : left_on[i] \notin Range(left.cols)}
  IN IF missR # {} THEN [ok |-> FALSE, error |-> msg_key_error \o right_on[Min(missR)]]
     ELSE IF missL # {} THEN [ok |-> FALSE, error |-> msg_key_error \o left_on[Min(missL)]]
     ELSE
       LET n == Len(left_on)
           keepR == [j \in 1..Len(right.cols) |->
                       ~\E i \in 1..n : left_on[i] = right_on[i]
                                         /\ right.cols[j] = right_on[i]]
           rcols == [j \in 1..Len(right.cols) |->
                       IF right.cols[j] \in Range(left.cols)
                       THEN right.cols[j] \o DropSuffix ELSE right.cols[j]]
           match(lrow, rrow) ==
             \A i \in 1..n :
               lrow[ColIndex(left.cols, left_on[i])]
                 = rrow[ColIndex(right.cols, right_on[i])]
           hits(lrow) ==
             SelectIdx(right.rows,
                       [k \in 1..Len(right.rows) |-> match(lrow, right.rows[k])], 1)
           expand(lrow) ==
             IF hits(lrow) = <<>>
             THEN <<>>
             ELSE [k \in 1..Len(hits(lrow)) |->
                     lrow \o SelectIdx(hits(lrow)[k], keepR, 1)]
       IN [ok |-> TRUE,
           df |-> [cols |-> left.cols \o SelectIdx(rcols, keepR, 1),
                   rows |-> Flatten([r \in 1..Len(left.rows) |->
                                       expand(left.rows[r])])]]

\* pd.merge(left, right, how='left', left_on, right_on, suffixes=('', '_DROP'))
\* A key that is no label of its frame raises KeyError.  Every left row, in
\* order, is paired with the right rows of equal keys, in order, or with
\* missing values.  A right label that the left frame has too gets the
\* suffix; a key column with one label on both sides is kept once.
PdMergeLeft(left, right, left_on, right_on) ==
  LET missR == {i \in 1..Len(right_on) : right_on[i] \notin Range(right.cols)}
      missL == {i \in 1..Len(left_on) : left_on[i] \notin Range(left.cols)}
  IN IF missR # {} THEN [ok |-> FALSE, error |-> msg_key_error \o right_on[Min(missR)]]
     ELSE IF missL # {} THEN [ok |-> FALSE, error |-> msg_key_error \o left_on[Min(missL)]]
     ELSE
       LET n == Len(left_on)
           keepR == [j \in 1..Len(right.cols) |->
                       ~\E i \in 1..n : left_on[i] = right_on[i]
                                         /\ right.cols[j] = right_on[i]]
           rcols == [j \in 1..Len(right.cols) |->
                       IF right.cols[j] \in Range(left.cols)
                       THEN right.cols[j] \o DropSuffix ELSE right.cols[j]]
           match(lrow, rrow) ==
             \A i \in 1..n :
               lrow[ColIndex(left.cols, left_on[i])]
                 = rrow[ColIndex(right.cols, right_on[i])]
           hits(lrow) ==
             SelectIdx(right.rows,
                       [k \in 1..Len(right.rows) |-> match(lrow, right.rows[k])], 1)
           expand(lrow) ==
             IF hits(lrow) = <<>>
             THEN <<lrow \o NaNRow(Len(SelectIdx(rcols, keepR, 1)))>>
             ELSE [k \in 1..Len(hits(lrow)) |->
                     lrow \o SelectIdx(hits(lrow)[k], keepR, 1)]
       IN [ok |-> TRUE,
           df |-> [cols |-> left.cols \o SelectIdx(rcols, keepR, 1),
                   rows |-> Flatten([r \in 1..Len(left.rows) |->
                                       expand(left.rows[r])])]]

\* the merged frame with its suffixed columns left in place
DropDropColumnsKept(df) == df

\* merged.drop(columns=[c for c in merged.columns if c.endswith('_DROP')])
DropDropColumns(df) ==
  LET keep == [j \in 1..Len(df.cols) |-> ~EndsWith(df.cols[j], DropSuffix)]
  IN [cols |-> SelectIdx(df.cols, keep, 1),
      rows |-> [r \in 1..Len(df.rows) |-> SelectIdx(df.rows[r], keep, 1)]]

\* the cartesian product of the rows of two frames
PdConcatCartesian(a, b) ==
  [cols |-> a.cols \o b.cols,
   rows |-> Flatten([r \in 1..Len(a.rows) |->
                       [k \in 1..Len(b.rows) |-> a.rows[r] \o b.rows[k]]])]

\* pd.concat([a, b], axis=1) of two frames with a 0..n-1 index
PdConcatColumns(a, b) ==
  LET n == IF Len(a.rows) > Len(b.rows) THEN Len(a.rows) ELSE Len(b.rows)
  IN [cols |-> a.cols \o b.cols,
      rows |-> [r \in 1..n |->
                  (IF r <= Len(a.rows) THEN a.rows[r] ELSE NaNRow(Len(a.cols)))
                  \o (IF r <= Len(b.rows) THEN b.rows[r] ELSE NaNRow(Len(b.cols)))]]

\* merged.fillna('NULL').reset_index(drop=True)
FillNa(df) ==
  [cols |-> df.cols,
   rows |-> [r \in 1..Len(df.rows) |->
               [j \in 1..Len(df.rows[r]) |->
                  IF df.rows[r][j] = NaN THEN NullText ELSE df.rows[r][j]]]]

\* ------------------------------------------------------------------------
\* The backend: what cursor.execute and fetchall give for a statement
\* ------------------------------------------------------------------------

Digits == {"0", "1", "2", "3", "4", "5", "6", "7", "8", "9"}

DigitVal(c) ==
  CASE c = "0" -> 0 [] c = "1" -> 1 [] c = "2" -> 2 [] c = "3" -> 3
    [] c = "4" -> 4 [] c = "5" -> 5 [] c = "6" -> 6 [] c = "7" -> 7
    [] c = "8" -> 8 [] c = "9" -> 9

IsNumber(t) == t # <<>> /\ \A i \in 1..Len(t) : t[i] \in Digits

RECURSIVE NumberOf(_)
NumberOf(t) ==
  IF t = <<>> THEN 0
  ELSE 10 * NumberOf(SubSeq(t, 1, Len(t) - 1)) + DigitVal(t[Len(t)])

\* a comparison of SQL between a value and a literal; a missing value
\* satisfies none
Compare(value, op, lit) ==
  IF op = EqSign THEN value = StripQuotes(lit)
  ELSE IF op = GtSign
  THEN IsNumber(value) /\ IsNumber(lit) /\ NumberOf(value) > NumberOf(lit)
  ELSE FALSE

\* the fragments of a predicate: name, operator, literal
Fragments(where_clause) ==
  IF where_clause = <<>> THEN <<>>
  ELSE LET t == SplitOn(where_clause, AndSep)
       IN [i \in 1..Len(t) |-> SplitWs(t[i])]

\* a table of a backend, or EmptyFrame with found = FALSE
BackendTable(db, connection, name) ==
  LET hit == {i \in 1..Len(db) : db[i].connection = connection /\ db[i].name = name}
  IN IF hit = {} THEN [found |-> FALSE, cols |-> <<>>, rows |-> <<>>]
     ELSE [found |-> TRUE, cols |-> db[Min(hit)].cols, rows |-> db[Min(hit)].rows]

\* a column reference the backend accepts in a statement FROM schema.table
\* without alias: col, table.col or schema.table.col, of an existing column
ValidRef(name, table, cols) ==
  LET parts == SplitOn(name, Dot)
      n == Len(parts)
  IN /\ n \in {1, 2, 3}
     /\ parts[n] \in Range(cols)
     /\ n = 2 => parts[1] = SplitOnce(table, Dot)[2]
     /\ n = 3 => parts[1] \o Dot \o parts[2] = table

\* the statement of _execute_client_join is one the backend can run
ValidSelect(db, stmt) ==
  LET t == BackendTable(db, stmt.connection, stmt.table)
      fr == Fragments(stmt.where)
  IN /\ t.found
     /\ stmt.cols = <<Star>> \/ Range(stmt.cols) \subseteq Range(t.cols)
     /\ \A i \in 1..Len(fr) :
          /\ Len(fr[i]) = 3
          /\ ValidRef(fr[i][1], stmt.table, t.cols)
          /\ fr[i][2] \in {EqSign, GtSign}
     /\ stmt.in_col # None => ValidRef(stmt.in_col, stmt.table, t.cols)

\* cur.fetchall() with cur.description, for a statement that is valid
BackendSelect(db, stmt) ==
  LET t == BackendTable(db, stmt.connection, stmt.table)
      fr == Fragments(stmt.where)
      value(row, name) == row[ColIndex(t.cols, LastSegment(name))]
      keep == [r \in 1..Len(t.rows) |->
                 /\ \A i \in 1..Len(fr) :
                      Compare(value(t.rows[r], fr[i][1]), fr[i][2], fr[i][3])
                 /\ stmt.in_col # None =>
                      value(t.rows[r], stmt.in_col) \in Range(stmt.params)]
      rows == SelectIdx(t.rows, keep, 1)
  IN IF stmt.cols = <<Star>> THEN [cols |-> t.cols, rows |-> rows]
     ELSE Project([cols |-> t.cols, rows |-> rows], stmt.cols)

\* ------------------------------------------------------------------------
\* _execute_client_join: the statement of one table
\* ------------------------------------------------------------------------

\* lines 465-476 as the list of (rule, other_table) pairs the loops visit
RECURSIVE RulePairs(_, _)
RulePairs(join_rules, full_table) ==
  IF join_rules = <<>> THEN <<>>
  ELSE (IF full_table \in Range(Head(join_rules).tables)
        THEN [i \in 1..Len(Head(join_rules).tables) |->
                <<Head(join_rules), Head(join_rules).tables[i]>>]
        ELSE <<>>)
       \o RulePairs(Tail(join_rules), full_table)

\* lines 463-476: join_key is the key of the last pair whose other table is
\* fetched; join_params collects the values of every such pair
RECURSIVE JoinParams(_, _, _, _, _)
JoinParams(pairs, full_table, table_info, dfs, acc) ==
  IF pairs = <<>> THEN acc
  ELSE LET rule == Head(pairs)[1]
           other_table == Head(pairs)[2]
       IN IF other_table # full_table /\ other_table \in DictKeys(dfs)
          THEN LET other_col == DictGet(table_info, other_table).alias \o Dot \o rule.key
                   other_df == DictGet(dfs, other_table)
               IN JoinParams(Tail(pairs), full_table, table_info, dfs,
                    [join_key |-> rule.key,
                     join_params |->
                       IF other_col \in Range(other_df.cols)
                       THEN acc.join_params \o Unique(Column(other_df, other_col), {})
                       ELSE acc.join_params])
          ELSE JoinParams(Tail(pairs), full_table, table_info, dfs, acc)

\* lines 446-494: the statement for full_table, given the frames of the
\* tables of the group fetched before it
ClientStatement(parsed, table_info, full_table, join_rules, dfs) ==
  LET info == DictGet(table_info, full_table)
      table_where == ExtractTableWhere(parsed.where, info.alias)
      columns == GetColumnsForTable(parsed.columns, info.alias, full_table)
      jp == JoinParams(RulePairs(join_rules, full_table), full_table, table_info, dfs,
                       [join_key |-> None, join_params |-> <<>>])
      use_in == jp.join_params # <<>> /\ jp.join_key # None
      in_col == IF use_in THEN info.alias \o Dot \o jp.join_key ELSE None
      conditions == (IF table_where # <<>> THEN <<table_where>> ELSE <<>>)
                    \o (IF use_in THEN <<in_col \o sql_in>> ELSE <<>>)
  IN [connection |-> info.connection,
      table |-> info.schema \o Dot \o info.table_name,
      cols |-> columns,
      where |-> table_where,
      in_col |-> in_col,
      params |-> jp.join_params,
      sql |-> sql_select \o JoinWith(columns, CommaSp) \o sql_from
              \o info.schema \o Dot \o info.table_name
              \o (IF conditions # <<>>
                  THEN sql_where \o JoinWith(conditions, AndSep) ELSE <<>>)]

\* ------------------------------------------------------------------------
\* _get_join_keys and _merge_results
\* ------------------------------------------------------------------------

kw_and == <<"a", "n", "d">>
kw_or == <<"o", "r">>
EqEq == <<"=", "=">>
NotEq == <<"!", "=">>
LtGt == <<"<", ">">>
sql_is_null == <<"I", "S", " ", "N", "U", "L", "L">>
sql_is_not_null == <<"I", "S", " ", "N", "O", "T", " ", "N", "U", "L", "L">>
py_isna == <<".", "i", "s", "n", "a", "(", ")">>
py_notna == <<".", "n", "o", "t", "n", "a", "(", ")">>
SingleQuote == <<"'">>
DoubleQuote == <<"\"">>
msg_index_error == <<"I", "n", "d", "e", "x", "E", "r", "r", "o", "r">>

\* re.split(r'\bAND\b|\bOR\b', condition, flags=re.IGNORECASE)
RECURSIVE SplitAndOr(_)
SplitAndOr(s) ==
  LET a == FindWord(Lower(s), kw_and, 1)
      o == FindWord(Lower(s), kw_or, 1)
      first == IF a = 0 THEN o ELSE IF o = 0 THEN a ELSE IF a < o THEN a ELSE o
      width == IF first = a /\ a # 0 THEN 3 ELSE 2
  IN IF first = 0 THEN <<s>>
     ELSE <<SubSeq(s, 1, first - 1)>> \o SplitAndOr(SubSeq(s, first + width, Len(s)))

RECURSIVE StripAll(_)
StripAll(ss) == IF ss = <<>> THEN <<>> ELSE <<Strip(Head(ss))>> \o StripAll(Tail(ss))

\* lines 817-829: the keys one comparison adds
ComparisonKeys(comp, current_alias, available_columns) ==
  IF ~Contains(comp, EqSign) THEN [left_keys |-> <<>>, right_keys |-> <<>>]
  ELSE LET p == SplitOnce(comp, EqSign)
           left == Strip(p[1])
           right == Strip(p[2])
           left_table == IF Contains(left, Dot) THEN SplitOn(left, Dot)[1] ELSE None
           right_table == IF Contains(right, Dot) THEN SplitOn(right, Dot)[1] ELSE None
       IN IF left_table = current_alias /\ right \in Range(available_columns)
          THEN [left_keys |-> <<right>>, right_keys |-> <<LastSegment(left)>>]
          ELSE IF right_table = current_alias /\ left \in Range(available_columns)
          THEN [left_keys |-> <<left>>, right_keys |-> <<LastSegment(right)>>]
          ELSE [left_keys |-> <<>>, right_keys |-> <<>>]

RECURSIVE ComparisonsKeys(_, _, _)
ComparisonsKeys(comps, current_alias, available_columns) ==
  IF comps = <<>> THEN [left_keys |-> <<>>, right_keys |-> <<>>]
  ELSE LET h == ComparisonKeys(Head(comps), current_alias, available_columns)
           t == ComparisonsKeys(Tail(comps), current_alias, available_columns)
       IN [left_keys |-> h.left_keys \o t.left_keys,
           right_keys |-> h.right_keys \o t.right_keys]

\* _get_join_keys; left_keys = <<>> stands for None
RECURSIVE GetJoinKeysScan(_, _, _, _)
GetJoinKeysScan(joins, current_table, current_alias, available_columns) ==
  IF joins = <<>> THEN [left_keys |-> <<>>, right_keys |-> <<>>]
  ELSE LET join == Head(joins)
           t == GetJoinKeysScan(Tail(joins), current_table, current_alias,
                                available_columns)
       IN IF join.table # current_table /\ join.alias # current_alias THEN t
          ELSE LET h == ComparisonsKeys(NonEmpty(StripAll(SplitAndOr(join.condition))),
                                        current_alias, available_columns)
               IN [left_keys |-> h.left_keys \o t.left_keys,
                   right_keys |-> h.right_keys \o t.right_keys]

GetJoinKeys(parsed, table_info, current_table, available_columns) ==
  GetJoinKeysScan(parsed.joins, current_table,
                  DictGet(table_info, current_table).alias, available_columns)

\* lines 538-567: the first applicable rule, in order, that holds the table,
\* has another fetched table and whose keys are present; 0 when there is none
RuleForMerge(join_rules, table_info, dfs, table, merged) ==
  LET common(rule) ==
        SelectIdx(rule.tables,
                  [i \in 1..Len(rule.tables) |->
                     rule.tables[i] \in DictKeys(dfs) /\ rule.tables[i] # table], 1)
      usable(rule) ==
        /\ table \in Range(rule.tables)
        /\ common(rule) # <<>>
        /\ DictGet(table_info, common(rule)[1]).alias \o Dot \o rule.key
             \in Range(merged.cols)
        /\ DictGet(table_info, table).alias \o Dot \o rule.key
             \in Range(DictGet(dfs, table).cols)
      hit == {i \in 1..Len(join_rules) : usable(join_rules[i])}
  IN IF hit = {} THEN [found |-> FALSE]
     ELSE LET rule == join_rules[Min(hit)]
          IN [found |-> TRUE,
              left_keys |-> <<DictGet(table_info, common(rule)[1]).alias
                              \o Dot \o rule.key>>,
              right_keys |-> <<DictGet(table_info, table).alias \o Dot \o rule.key>>]

\* lines 518-571: one table merged into the accumulator; join_keys is the
\* value of _get_join_keys and by_rule the rule the loop of line 541 finds
MergeStep(df, join_keys, by_rule, left) ==
  IF join_keys.left_keys # <<>>
  THEN LET m == PdMergeLeft(left, df, join_keys.left_keys, join_keys.right_keys)
       IN IF m.ok THEN [ok |-> TRUE, how |-> "explicit", df |-> DropDropColumns(m.df)]
          ELSE [ok |-> FALSE, how |-> "explicit", error |-> m.error]
  ELSE IF by_rule.found
  THEN [ok |-> TRUE, how |-> "rule",
        df |-> DropDropColumns(PdMergeLeft(left, df, by_rule.left_keys,
                                           by_rule.right_keys).df)]
  ELSE [ok |-> TRUE, how |-> "concat", df |-> PdConcatColumns(left, df)]

\* line 511: the identifiers of the query, in the order the set yields
\* them, that are keys of dfs
TablesOrdered(order, dfs) ==
  SelectIdx(order, [i \in 1..Len(order) |-> order[i] \in DictKeys(dfs)], 1)

\* ------------------------------------------------------------------------
\* The post-merge filter
\* ------------------------------------------------------------------------

\* lines 836-841: original name -> full label, for the labels with a dot
RECURSIVE ColumnMapping(_, _)
ColumnMapping(available_columns, column_mapping) ==
  IF available_columns = <<>> THEN column_mapping
  ELSE LET col == Head(available_columns)
       IN ColumnMapping(Tail(available_columns),
            IF Contains(col, Dot)
            THEN DictSet(DictSet(column_mapping, col, col), LastSegment(col), col)
            ELSE column_mapping)

\* sorted(items, key=lambda x: -len(x[0])): stable, longest name first
RECURSIVE SortByLength(_)
SortByLength(items) ==
  IF items = <<>> THEN <<>>
  ELSE LET longest == Min({i \in 1..Len(items) :
                            \A j \in 1..Len(items) : Len(items[j][1]) <= Len(items[i][1])})
       IN <<items[longest]>>
          \o SortByLength(SubSeq(items, 1, longest - 1)
                          \o SubSeq(items, longest + 1, Len(items)))

\* re.sub(rf'(?<!\w){original}(?!\w)', new, s)
RECURSIVE SubWord(_, _, _)
SubWord(s, original, new) ==
  LET i == FindWord(s, original, 1)
  IN IF i = 0 THEN s
     ELSE SubSeq(s, 1, i - 1) \o new
          \o SubWord(SubSeq(s, i + Len(original), Len(s)), original, new)

RECURSIVE SubAll(_, _)
SubAll(s, items) ==
  IF items = <<>> THEN s
  ELSE SubAll(SubWord(s, Head(items)[1], Head(items)[2]), Tail(items))

\* the length of the run of \w characters of s that starts at i
RECURSIVE WordRun(_, _)
WordRun(s, i) == IF i <= Len(s) /\ IsWordChar(s[i]) THEN 1 + WordRun(s, i + 1) ELSE 0

\* re.sub(r'\b\w+\.(\w+)\b', r'\1', s): every word.word, scanning from the
\* left without overlap, is replaced by its second word
RECURSIVE StripPrefixesFrom(_, _)
StripPrefixesFrom(s, i) ==
  IF i > Len(s) THEN <<>>
  ELSE LET n1 == WordRun(s, i)
           n2 == IF n1 > 0 /\ i + n1 <= Len(s) /\ s[i + n1] = "."
                 THEN WordRun(s, i + n1 + 1) ELSE 0
       IN IF n1 = 0 THEN <<s[i]>> \o StripPrefixesFrom(s, i + 1)
          ELSE IF n2 > 0
          THEN SubSeq(s, i + n1 + 1, i + n1 + n2) \o StripPrefixesFrom(s, i + n1 + n2 + 1)
          ELSE SubSeq(s, i, i + n1 - 1) \o StripPrefixesFrom(s, i + n1)

StripPrefixes(s) == StripPrefixesFrom(s, 1)

\* _prepare_where_condition
PrepareWhereCondition(where_clause, available_columns) ==
  LET named == SubAll(where_clause,
                      SortByLength(ColumnMapping(available_columns, <<>>)))
      bare == StripPrefixes(named)
  IN Replace(Replace(Replace(Replace(Replace(bare, EqSign, EqEq), LtGt, NotEq),
                             sql_is_null, py_isna),
                     sql_is_not_null, py_notna),
             SingleQuote, DoubleQuote)

\* df.query(expr, engine='python') evaluates a comparison of a name with a
\* literal when the name is an identifier that is a label of the frame; a
\* dotted name is an attribute of an undefined name, an unknown name is
\* undefined, and AND is no operator of the expression language: it raises
QueryEvaluable(df, expr) ==
  LET w == SplitWs(expr)
  IN /\ Len(w) = 3
     /\ ~Contains(w[1], Dot)
     /\ w[1] \in Range(df.cols)
     /\ w[2] \in {EqEq, GtSign}

DfQuery(df, expr) ==
  LET w == SplitWs(expr)
      op == IF w[2] = EqEq THEN EqSign ELSE w[2]
      keep == [r \in 1..Len(df.rows) |->
                 Compare(df.rows[r][ColIndex(df.cols, w[1])], op, w[3])]
  IN [cols |-> df.cols, rows |-> SelectIdx(df.rows, keep, 1)]

\* lines 874-894: the mask one condition contributes; a condition whose
\* column is no label raises KeyError inside the try and is skipped
ManualMask(df, cond, r) ==
  LET has(col) == col \in Range(df.cols)
      cell(col) == df.rows[r][ColIndex(df.cols, col)]
  IN IF Contains(cond, EqEq)
     THEN LET p == SplitOnce(cond, EqEq)
          IN has(Strip(p[1])) => cell(Strip(p[1])) = StripQuotes(Strip(p[2]))
     ELSE IF Contains(cond, NotEq)
     THEN LET p == SplitOnce(cond, NotEq)
          IN has(Strip(p[1])) => cell(Strip(p[1])) # StripQuotes(Strip(p[2]))
     ELSE IF Contains(cond, py_isna)
     THEN LET col == Strip(Replace(cond, py_isna, <<>>))
          IN has(col) => cell(col) = NaN
     ELSE IF Contains(cond, py_notna)
     THEN LET col == Strip(Replace(cond, py_notna, <<>>))
          IN has(col) => cell(col) # NaN
     ELSE TRUE

\* _apply_where_manually
ApplyWhereManually(df, where_condition) ==
  LET conditions == StripAll(SplitOn(StripPrefixes(where_condition), AndSep))
      keep == [r \in 1..Len(df.rows) |->
                 \A i \in 1..Len(conditions) : ManualMask(df, conditions[i], r)]
  IN [cols |-> df.cols, rows |-> SelectIdx(df.rows, keep, 1)]

\* _apply_global_where
ApplyGlobalWhere(df, where_clause) ==
  LET global_where == PrepareWhereCondition(where_clause, df.cols)
  IN IF QueryEvaluable(df, global_where) THEN DfQuery(df, global_where)
     ELSE ApplyWhereManually(df, global_where)

\* ------------------------------------------------------------------------
\* The inputs of the model
\* ------------------------------------------------------------------------

db1 == <<"d", "b", "1">>
db2 == <<"d", "b", "2">>
public_users == <<"p", "u", "b", "l", "i", "c", ".", "u", "s", "e", "r", "s">>
public_orders == <<"p", "u", "b", "l", "i", "c", ".", "o", "r", "d", "e", "r", "s">>
sales_users == <<"s", "a", "l", "e", "s", ".", "u", "s", "e", "r", "s">>
c_id == <<"i", "d">>
c_name == <<"n", "a", "m", "e">>
c_user_id == <<"u", "s", "e", "r", "_", "i", "d">>
c_product == <<"p", "r", "o", "d", "u", "c", "t">>
v_1 == <<"1">>
v_2 == <<"2">>
v_Alice == <<"A", "l", "i", "c", "e">>
v_Bob == <<"B", "o", "b">>
v_Book == <<"B", "o", "o", "k">>
v_Pen == <<"P", "e", "n">>
DriverError == <<"D", "B", " ", "e", "r", "r", "o", "r">>
ElapsedSuffix == <<" ", "(", "t", "i", "m", "e", ")">>

\* SELECT * FROM public.users
Q_users ==
  <<"S", "E", "L", "E", "C", "T", " ", "*", " ", "F", "R", "O", "M", " ", "p", "u", "b", "l", "i", "c", ".", "u", "s", "e", "r", "s">>
\* SELECT * FROM public.users u
Q_users_alias ==
  <<"S", "E", "L", "E", "C", "T", " ", "*", " ", "F", "R", "O", "M", " ", "p", "u", "b", "l", "i", "c", ".", "u", "s", "e", "r", "s", " ", "u">>
\* SELECT * FROM users u
Q_unqualified ==
  <<"S", "E", "L", "E", "C", "T", " ", "*", " ", "F", "R", "O", "M", " ", "u", "s", "e", "r", "s", " ", "u">>
\* SELECT * FROM public.users, public.orders
Q_two_tables ==
  <<"S", "E", "L", "E", "C", "T", " ", "*", " ", "F", "R", "O", "M", " ", "p", "u", "b", "l", "i", "c", ".", "u", "s", "e", "r", "s", ",", " ", "p", "u", "b", "l", "i", "c", ".", "o", "r", "d", "e", "r", "s">>
\* SELECT * FROM public.users u JOIN public.orders o ON u.id = o.user_id
Q_join_no_as ==
  <<"S", "E", "L", "E", "C", "T", " ", "*", " ", "F", "R", "O", "M", " ", "p", "u", "b", "l", "i", "c", ".", "u", "s", "e", "r", "s", " ", "u", " ", "J", "O", "I", "N", " ", "p", "u", "b", "l", "i", "c", ".", "o", "r", "d", "e", "r", "s", " ", "o", " ", "O", "N", " ", "u", ".", "i", "d", " ", "=", " ", "o", ".", "u", "s", "e", "r", "_", "i", "d">>
\* SELECT * FROM public.users u JOIN public.orders AS o ON u.id = o.user_id
Q_join_as ==
  <<"S", "E", "L", "E", "C", "T", " ", "*", " ", "F", "R", "O", "M", " ", "p", "u", "b", "l", "i", "c", ".", "u", "s", "e", "r", "s", " ", "u", " ", "J", "O", "I", "N", " ", "p", "u", "b", "l", "i", "c", ".", "o", "r", "d", "e", "r", "s", " ", "A", "S", " ", "o", " ", "O", "N", " ", "u", ".", "i", "d", " ", "=", " ", "o", ".", "u", "s", "e", "r", "_", "i", "d">>
\* SELECT * FROM public.orders, public.users u WHERE orders.product = 'Book'
Q_where_product ==
  <<"S", "E", "L", "E", "C", "T", " ", "*", " ", "F", "R", "O", "M", " ", "p", "u", "b", "l", "i", "c", ".", "o", "r", "d", "e", "r", "s", ",", " ", "p", "u", "b", "l", "i", "c", ".", "u", "s", "e", "r", "s", " ", "u", " ", "W", "H", "E", "R", "E", " ", "o", "r", "d", "e", "r", "s", ".", "p", "r", "o", "d", "u", "c", "t", " ", "=", " ", "'", "B", "o", "o", "k", "'">>
\* SELECT * FROM public.users WHERE users.name = 'Alice'
Q_where_name ==
  <<"S", "E", "L", "E", "C", "T", " ", "*", " ", "F", "R", "O", "M", " ", "p", "u", "b", "l", "i", "c", ".", "u", "s", "e", "r", "s", " ", "W", "H", "E", "R", "E", " ", "u", "s", "e", "r", "s", ".", "n", "a", "m", "e", " ", "=", " ", "'", "A", "l", "i", "c", "e", "'">>
\* SELECT * FROM public.users users WHERE id > 1 AND users.name = 'Bob'
Q_where_id ==
  <<"S", "E", "L", "E", "C", "T", " ", "*", " ", "F", "R", "O", "M", " ", "p", "u", "b", "l", "i", "c", ".", "u", "s", "e", "r", "s", " ", "u", "s", "e", "r", "s", " ", "W", "H", "E", "R", "E", " ", "i", "d", " ", ">", " ", "1", " ", "A", "N", "D", " ", "u", "s", "e", "r", "s", ".", "n", "a", "m", "e", " ", "=", " ", "'", "B", "o", "b", "'">>
\* SELECT 1
Q_no_from ==
  <<"S", "E", "L", "E", "C", "T", " ", "1">>

\* SELECT * FROM public.users, sales.users s, public.orders
Q_three ==
  <<"S", "E", "L", "E", "C", "T", " ", "*", " ", "F", "R", "O", "M", " ", "p", "u", "b", "l", "i", "c", ".", "u", "s", "e", "r", "s", ",", " ", "s", "a", "l", "e", "s", ".", "u", "s", "e", "r", "s", " ", "s", ",", " ", "p", "u", "b", "l", "i", "c", ".", "o", "r", "d", "e", "r", "s">>
\* SELECT * FROM public.users, sales.users
Q_same_name ==
  <<"S", "E", "L", "E", "C", "T", " ", "*", " ", "F", "R", "O", "M", " ", "p", "u", "b", "l", "i", "c", ".", "u", "s", "e", "r", "s", ",", " ", "s", "a", "l", "e", "s", ".", "u", "s", "e", "r", "s">>

\* SELECT * FROM public.users users WHERE public.users.name = 'Bob'
Q_where_qualified ==
  <<"S", "E", "L", "E", "C", "T", " ", "*", " ", "F", "R", "O", "M", " ", "p", "u", "b", "l", "i", "c", ".", "u", "s", "e", "r", "s", " ", "u", "s", "e", "r", "s", " ", "W", "H", "E", "R", "E", " ", "p", "u", "b", "l", "i", "c", ".", "u", "s", "e", "r", "s", ".", "n", "a", "m", "e", " ", "=", " ", "'", "B", "o", "b", "'">>

\* SELECT * FROM users, public.orders
Q_unqualified_two ==
  <<"S", "E", "L", "E", "C", "T", " ", "*", " ", "F", "R", "O", "M", " ", "u", "s", "e", "r", "s", ",", " ", "p", "u", "b", "l", "i", "c", ".", "o", "r", "d", "e", "r", "s">>

Queries ==
  {Q_users, Q_users_alias, Q_unqualified, Q_two_tables, Q_join_no_as, Q_join_as,
   Q_where_product, Q_where_name, Q_where_id, Q_no_from, Q_three, Q_same_name,
   Q_where_qualified, Q_unqualified_two}

\* the rows every backend holds
UsersRows == <<<<v_1, v_Alice>>, <<v_2, v_Bob>>>>

OrdersRows == <<<<v_1, v_2, v_Book>>, <<v_2, v_2, v_Pen>>>>

BackendData(connection) ==
  <<[connection |-> connection, name |-> public_users,
     cols |-> <<c_id, c_name>>, rows |-> UsersRows],
    [connection |-> connection, name |-> public_orders,
     cols |-> <<c_id, c_user_id, c_product>>, rows |-> OrdersRows],
    [connection |-> connection, name |-> sales_users,
     cols |-> <<c_id, c_name>>, rows |-> <<<<v_2, v_Bob>>>>]>>

Database == BackendData(db1) \o BackendData(db2)

\* the parameters of a connection profile that add_connection requires
RequiredParams == {"host", "port", "dbname"}

Rule(tables, key, execute_in_db) ==
  [tables |-> tables, key |-> key, join_type |-> "left", execute_in_db |-> execute_in_db]

\* the configurations load_env_config can find in the .env file
Config(cp, tm, jc) == [connection_params |-> cp, table_mapping |-> tm, join_config |-> jc]

PersistedConfigs ==
  { Config(<<>>, <<>>, <<>>),
    Config(<<<<db1, RequiredParams>>>>,
           <<<<public_users, db1>>, <<public_orders, db1>>>>,
           <<Rule(<<public_users, public_orders>>, c_user_id, FALSE)>>),
    Config(<<<<db1, RequiredParams>>, <<db2, RequiredParams>>>>,
           <<<<public_users, db1>>, <<public_orders, db2>>, <<sales_users, db2>>>>,
           <<Rule(<<public_users, public_orders>>, c_id, FALSE)>>),
    Config(<<<<db1, RequiredParams>>>>,
           <<<<public_users, db1>>, <<public_orders, db1>>>>,
           <<Rule(<<public_users, public_orders>>, c_id, TRUE)>>),
    Config(<<<<db1, RequiredParams>>>>,
           <<<<public_users, db1>>, <<public_orders, db1>>>>,
           <<Rule(<<public_users, public_orders>>, c_id, FALSE),
             Rule(<<public_users, public_orders>>, c_user_id, FALSE)>>),
    Config(<<<<db1, RequiredParams>>, <<db2, RequiredParams>>>>,
           <<<<public_users, db1>>, <<public_orders, db1>>, <<sales_users, db2>>>>,
           <<Rule(<<sales_users, public_orders, public_users>>, c_id, FALSE)>>) }

\* ------------------------------------------------------------------------
\* _execute_db_join
\* ------------------------------------------------------------------------

sql_as == <<" ", "A", "S", " ">>
sql_join == <<"J", "O", "I", "N", " ">>
sql_on == <<" ", "O", "N", " ">>
sql_eq == <<" ", "=", " ">>
DotStar == <<".", "*">>

\* lines 358-367: the select items of one table: alias.* or alias.col AS
\* alias_col
SelectItems(parsed, table_info, table) ==
  LET info == DictGet(table_info, table)
      columns == GetColumnsForTable(parsed.columns, info.alias, table)
  IN IF columns = <<Star>>
     THEN <<[alias |-> info.alias, col |-> Star, label |-> None,
             text |-> info.alias \o DotStar]>>
     ELSE [i \in 1..Len(columns) |->
             [alias |-> info.alias, col |-> columns[i],
              label |-> info.alias \o Underscore \o columns[i],
              text |-> info.alias \o Dot \o columns[i] \o sql_as
                       \o info.alias \o Underscore \o columns[i]]]

\* lines 377-385: the conditions of the rules that cover the group
RECURSIVE JoinConditions(_, _, _)
JoinConditions(join_rules, tables_in_conn, table_info) ==
  IF join_rules = <<>> THEN <<>>
  ELSE LET rule == Head(join_rules)
           on(i) == [left |-> DictGet(table_info, rule.tables[1]).alias,
                     right |-> DictGet(table_info, rule.tables[i]).alias,
                     key |-> rule.key]
       IN (IF Range(tables_in_conn) \subseteq Range(rule.tables) /\ rule.execute_in_db
           THEN SelectIdx([i \in 1..Len(rule.tables) |-> on(i)],
                          [i \in 1..Len(rule.tables) |->
                             i > 1 /\ rule.tables[i] \in Range(tables_in_conn)], 1)
           ELSE <<>>)
          \o JoinConditions(Tail(join_rules), tables_in_conn, table_info)

\* lines 351-401: the one statement of the group
DbJoinStatement(parsed, table_info, conn_name, tables_in_conn, join_rules) ==
  LET info(i) == DictGet(table_info, tables_in_conn[i])
      items == Flatten([i \in 1..Len(tables_in_conn) |->
                          SelectItems(parsed, table_info, tables_in_conn[i])])
      from_parts == [i \in 1..Len(tables_in_conn) |->
                       (IF i = 1 THEN <<>> ELSE sql_join)
                       \o info(i).schema \o Dot \o info(i).table_name
                       \o sql_as \o info(i).alias]
      on == JoinConditions(join_rules, tables_in_conn, table_info)
      where_conditions ==
        NonEmpty([i \in 1..Len(tables_in_conn) |->
                    ExtractTableWhere(parsed.where, info(i).alias)])
  IN [connection |-> conn_name,
      tables |-> [i \in 1..Len(tables_in_conn) |->
                    [table |-> info(i).schema \o Dot \o info(i).table_name,
                     alias |-> info(i).alias]],
      items |-> items,
      on |-> on,
      where |-> JoinWith(where_conditions, AndSep),
      sql |-> sql_select \o JoinWith([i \in 1..Len(items) |-> items[i].text], CommaSp)
              \o sql_from \o JoinWith(from_parts, Space)
              \o (IF on # <<>>
                  THEN sql_on \o JoinWith([i \in 1..Len(on) |->
                                            on[i].left \o Dot \o on[i].key \o sql_eq
                                            \o on[i].right \o Dot \o on[i].key], AndSep)
                  ELSE <<>>)
              \o (IF where_conditions # <<>>
                  THEN sql_where \o JoinWith(where_conditions, AndSep) ELSE <<>>)]

\* the columns of the table a statement declares under an alias
AliasTable(db, stmt, alias) ==
  LET hit == {i \in 1..Len(stmt.tables) : stmt.tables[i].alias = alias}
  IN IF hit = {} THEN [found |-> FALSE, cols |-> <<>>, rows |-> <<>>]
     ELSE BackendTable(db, stmt.connection, stmt.tables[Min(hit)].table)

\* the backend can run the statement: two tables under distinct aliases
\* joined by a single ON (a JOIN without ON, or a second JOIN before the ON,
\* is a syntax error), and every reference names a declared alias and a
\* column of its table
ValidJoin(db, stmt) ==
  LET fr == Fragments(stmt.where)
      refOk(name) ==
        LET parts == SplitOn(name, Dot)
        IN /\ Len(parts) = 2
           /\ AliasTable(db, stmt, parts[1]).found
           /\ parts[2] \in Range(AliasTable(db, stmt, parts[1]).cols)
  IN /\ Len(stmt.tables) = 2
     /\ stmt.tables[1].alias # stmt.tables[2].alias
     /\ \A i \in 1..2 : BackendTable(db, stmt.connection, stmt.tables[i].table).found
     /\ stmt.on # <<>>
     /\ \A i \in 1..Len(stmt.on) :
          /\ refOk(stmt.on[i].left \o Dot \o stmt.on[i].key)
          /\ refOk(stmt.on[i].right \o Dot \o stmt.on[i].key)
     /\ \A i \in 1..Len(stmt.items) :
          \/ stmt.items[i].col = Star
          \/ refOk(stmt.items[i].alias \o Dot \o stmt.items[i].col)
     /\ \A i \in 1..Len(fr) :
          /\ Len(fr[i]) = 3
          /\ refOk(fr[i][1])
          /\ fr[i][2] \in {EqSign, GtSign}

\* cur.fetchall() with cur.description for a valid join statement: the
\* pairs of rows that satisfy the ON conditions and the WHERE; alias.* gives
\* the columns of the table under their own names
BackendJoin(db, stmt) ==
  LET a == BackendTable(db, stmt.connection, stmt.tables[1].table)
      b == BackendTable(db, stmt.connection, stmt.tables[2].table)
      fr == Fragments(stmt.where)
      cell(ra, rb, alias, col) ==
        IF alias = stmt.tables[1].alias THEN ra[ColIndex(a.cols, col)]
        ELSE rb[ColIndex(b.cols, col)]
      ref(ra, rb, name) == cell(ra, rb, SplitOn(name, Dot)[1], SplitOn(name, Dot)[2])
      holds(ra, rb) ==
        /\ \A i \in 1..Len(stmt.on) :
             cell(ra, rb, stmt.on[i].left, stmt.on[i].key)
               = cell(ra, rb, stmt.on[i].right, stmt.on[i].key)
        /\ \A i \in 1..Len(fr) : Compare(ref(ra, rb, fr[i][1]), fr[i][2], fr[i][3])
      pairs == Flatten([i \in 1..Len(a.rows) |->
                 SelectIdx([j \in 1..Len(b.rows) |-> <<a.rows[i], b.rows[j]>>],
                           [j \in 1..Len(b.rows) |-> holds(a.rows[i], b.rows[j])], 1)])
      colsOf(alias) == AliasTable(db, stmt, alias).cols
      labels(item) == IF item.col = Star THEN colsOf(item.alias) ELSE <<item.label>>
      values(item, ra, rb) ==
        IF item.col = Star
        THEN [k \in 1..Len(colsOf(item.alias)) |->
                cell(ra, rb, item.alias, colsOf(item.alias)[k])]
        ELSE <<cell(ra, rb, item.alias, item.col)>>
  IN [cols |-> Flatten([i \in 1..Len(stmt.items) |-> labels(stmt.items[i])]),
      rows |-> [p \in 1..Len(pairs) |->
                  Flatten([i \in 1..Len(stmt.items) |->
                             values(stmt.items[i], pairs[p][1], pairs[p][2])])]]

\* lines 411-435: the frame of one table cut out of the joined frame
SplitJoined(parsed, table_info, table, df_joined) ==
  LET info == DictGet(table_info, table)
      columns == GetColumnsForTable(parsed.columns, info.alias, table)
      table_cols ==
        IF parsed.columns = <<Star>>
        THEN SelectIdx(df_joined.cols,
                       [j \in 1..Len(df_joined.cols) |->
                          StartsWith(df_joined.cols[j], info.alias \o Underscore)], 1)
        ELSE IF columns = <<Star>> THEN <<>>
        ELSE [i \in 1..Len(columns) |-> info.alias \o Underscore \o columns[i]]
      df_table == Project(df_joined, table_cols)
      unprefixed ==
        IF parsed.select_all THEN df_table.cols
        ELSE [j \in 1..Len(df_table.cols) |->
                IF Contains(df_table.cols[j], Underscore)
                THEN SplitOnce(df_table.cols[j], Underscore)[2]
                ELSE df_table.cols[j]]
  IN PrefixColumns([cols |-> unprefixed, rows |-> df_table.rows], info.alias)

RECURSIVE SplitAll(_, _, _, _)
SplitAll(parsed, table_info, tables, df_joined) ==
  IF tables = <<>> THEN <<>>
  ELSE <<<<Head(tables), SplitJoined(parsed, table_info, Head(tables), df_joined)>>>>
       \o SplitAll(parsed, table_info, Tail(tables), df_joined)

RECURSIVE SetColumns(_, _)
SetColumns(table_info, frames) ==
  IF frames = <<>> THEN table_info
  ELSE SetColumns(DictSet(table_info, Head(frames)[1],
                          [DictGet(table_info, Head(frames)[1])
                             EXCEPT !.columns = Head(frames)[2].cols]),
                  Tail(frames))

\* ------------------------------------------------------------------------
\* State
\* ------------------------------------------------------------------------

VARIABLES
  connection_params,  \* name -> set of parameter names        (line 16)
  table_mapping,      \* table identifier -> connection name   (line 17)
  join_config,        \* list of join rules                    (line 18)
  connections,        \* connection name -> connection object  (line 19)
  conns,              \* the connection objects psycopg2.connect returned
  admin,              \* the last configuration operation and how it ended
  pc,                 \* where execute_query stands
  query,              \* its argument
  parsed,             \* the value of parse_sql
  order,              \* the order in which the set parsed['tables'] iterates
  table_info,         \* the value of _resolve_table_mappings
  conn_groups,        \* the value of _group_tables_by_connection
  group_i,            \* _fetch_data: the group being fetched
  table_i,            \* _execute_client_join: the table being fetched
  group_dfs,          \* _execute_client_join: its local dfs
  dfs,                \* _fetch_data: the frames fetched so far
  tables_ordered,     \* _merge_results: the tables still to merge
  merged,             \* _merge_results: the accumulated frame
  calls,              \* the backend calls of this query: connect and execute
  cause,              \* the text of the driver error that ended the query
  outcome             \* how execute_query ended: result or error

config_vars == <<connection_params, table_mapping, join_config>>

query_vars == <<pc, query, parsed, order, table_info, conn_groups, group_i, table_i,
                group_dfs, dfs, tables_ordered, merged, calls, cause, outcome>>

vars == <<connection_params, table_mapping, join_config, connections, conns, admin,
          pc, query, parsed, order, table_info, conn_groups, group_i, table_i,
          group_dfs, dfs, tables_ordered, merged, calls, cause, outcome>>

\* the number of operations of the windows of a run: the configuration
\* operations and reconnect_connection
MaxAdminOps == 1

NoParse == [ok |-> FALSE]

NoOutcome == [kind |-> "none"]

QueryIdle ==
  /\ pc = "idle" /\ query = <<>> /\ parsed = NoParse /\ order = <<>>
  /\ table_info = <<>> /\ conn_groups = <<>> /\ group_i = 0 /\ table_i = 0
  /\ group_dfs = <<>> /\ dfs = <<>> /\ tables_ordered = <<>> /\ merged = EmptyFrame
  /\ calls = <<>>
  /\ cause = None /\ outcome = NoOutcome

\* __init__: the configuration of the .env file, no connection
Init ==
  /\ \E c \in PersistedConfigs :
       /\ connection_params = c.connection_params
       /\ table_mapping = c.table_mapping
       /\ join_config = c.join_config
  /\ connections = <<>>
  /\ conns = <<>>
  /\ admin = [op |-> "none", status |-> "none", n |-> 0]
  /\ QueryIdle

\* ------------------------------------------------------------------------
\* Configuration operations
\* ------------------------------------------------------------------------

DictDel(d, k) == SelectIdx(d, [i \in 1..Len(d) |-> d[i][1] # k], 1)

Ended(op, status) == admin' = [admin EXCEPT !.op = op, !.status = status, !.n = @ + 1]

AdminEnabled == pc = "idle" /\ admin.n < MaxAdminOps

\* add_connection
add_connection(name, params) ==
  /\ AdminEnabled
  /\ IF ~(RequiredParams \subseteq params)
     THEN /\ Ended("add_connection", "rejected")
          /\ UNCHANGED connection_params
     ELSE /\ connection_params' = DictSet(connection_params, name, params)
          /\ Ended("add_connection", "ok")
  /\ UNCHANGED <<table_mapping, join_config, connections, conns, query_vars>>

\* remove_connection
remove_connection(name) ==
  /\ AdminEnabled
  /\ IF name \in DictKeys(connection_params)
     THEN /\ connection_params' = DictDel(connection_params, name)
          /\ Ended("remove_connection", "ok")
     ELSE /\ Ended("remove_connection", "not found")
          /\ UNCHANGED connection_params
  /\ UNCHANGED <<table_mapping, join_config, connections, conns, query_vars>>

\* map_table
map_table(table, connection) ==
  /\ AdminEnabled
  /\ IF connection \notin DictKeys(connection_params)
     THEN /\ Ended("map_table", "rejected")
          /\ UNCHANGED table_mapping
     ELSE /\ table_mapping' = DictSet(table_mapping, table, connection)
          /\ Ended("map_table", "ok")
  /\ UNCHANGED <<connection_params, join_config, connections, conns, query_vars>>

\* add_join_rule
add_join_rule(tables, key, join_type) ==
  /\ AdminEnabled
  /\ IF Len(tables) < 2 \/ ~(Range(tables) \subseteq DictKeys(table_mapping))
     THEN /\ Ended("add_join_rule", "rejected")
          /\ UNCHANGED join_config
     ELSE /\ join_config' = Append(join_config,
                               [tables |-> tables, key |-> key,
                                join_type |-> join_type, execute_in_db |-> FALSE])
          /\ Ended("add_join_rule", "ok")
  /\ UNCHANGED <<connection_params, table_mapping, connections, conns, query_vars>>

\* set_join_execution; rule_index counts from 0
set_join_execution(rule_index, execute_in_db) ==
  /\ AdminEnabled
  /\ IF 0 <= rule_index /\ rule_index < Len(join_config)
     THEN /\ join_config' = [join_config EXCEPT ![rule_index + 1].execute_in_db =
                               execute_in_db]
          /\ Ended("set_join_execution", "ok")
     ELSE /\ Ended("set_join_execution", "rejected")
          /\ UNCHANGED join_config
  /\ UNCHANGED <<connection_params, table_mapping, connections, conns, query_vars>>

\* ------------------------------------------------------------------------
\* Connections
\* ------------------------------------------------------------------------

\* psycopg2.connect returned this object during the running query or, from
\* the connection window, outside of one
NewConnection(key, in_query) ==
  [key |-> key, closed |-> FALSE, closes |-> 0, in_query |-> in_query]

\* get_connection adding user and password to the stored profile
ProfilesWithCredentials(profiles, key) ==
  DictSet(profiles, key, DictGet(profiles, key) \cup {"user", "password"})

\* lines 159-163: the profile is copied before user and password are added
ProfilesAfterGetConnection(profiles, key) == profiles

\* line 168: self.connections[key] = conn
ConnectionsAfterConnect(map, objs, key) == DictSet(map, key, Len(objs) + 1)

\* the objects the map holds that are not closed
OpenInMap(map, objs) == {map[i][2] : i \in 1..Len(map)} \cap {j \in 1..Len(objs) : ~objs[j].closed}

\* _close_connections: close() on every object of the map that is not
\* closed; a close() that raises is logged and leaves the object open
ObjectsAfterClose(map, objs, failing) ==
  [j \in 1..Len(objs) |->
     IF j \in OpenInMap(map, objs)
     THEN [objs[j] EXCEPT !.closes = @ + 1, !.closed = (j \notin failing)]
     ELSE objs[j]]

\* _close_connections without the clear()
MapAfterCloseKept(map) == map

\* line 595: self.connections.clear()
MapAfterClose(map) == <<>>

\* ------------------------------------------------------------------------
\* execute_query
\* ------------------------------------------------------------------------

NoStatement ==
  [connection |-> None, table |-> None, cols |-> <<>>, where |-> None,
   in_col |-> None, params |-> <<>>, sql |-> None]

Call(op, key, stmt, ok) == [op |-> op, key |-> key, stmt |-> stmt, ok |-> ok]

\* the except block raising a text of its own in place of str(e)
RaiseGeneric(message, driver_error, map, objs, log) ==
  /\ outcome' = [kind |-> "raised", error |-> msg_parse \o ElapsedSuffix]
  /\ cause' = driver_error
  /\ calls' = log
  /\ pc' = "done"
  /\ \E failing \in SUBSET OpenInMap(map, objs) :
       conns' = ObjectsAfterClose(map, objs, failing)
  /\ connections' = MapAfterClose(map)

\* lines 259-265: the error is wrapped with the elapsed time and raised, and
\* the finally block closes the connections of the map
Raise(message, driver_error, map, objs, log) ==
  /\ outcome' = [kind |-> "raised", error |-> message \o ElapsedSuffix]
  /\ cause' = driver_error
  /\ calls' = log
  /\ pc' = "done"
  /\ \E failing \in SUBSET OpenInMap(map, objs) :
       conns' = ObjectsAfterClose(map, objs, failing)
  /\ connections' = MapAfterClose(map)

\* lines 177-224.  The commands of lines 185-216 call _execute_select,
\* _execute_dml and _execute_generic, which the class does not define: the
\* AttributeError is caught at line 213 and only logged.  The statements of
\* this model hold no semicolon, so line 222 finds no match.
StartQuery(q) ==
  /\ pc = "idle"
  /\ pc' = "parse"
  /\ query' = q
  /\ admin' = [admin EXCEPT !.op = "none", !.status = "none"]
  /\ UNCHANGED <<config_vars, connections, conns, parsed, order, table_info,
                 conn_groups, group_i, table_i, group_dfs, dfs, tables_ordered,
                 merged, calls, cause, outcome>>

\* line 228
Parse ==
  /\ pc = "parse"
  /\ LET p == ParseSql(query)
     IN IF ~p.ok
        THEN /\ Raise(msg_parse, None, connections, conns, calls)
             /\ UNCHANGED <<parsed, order>>
        ELSE /\ parsed' = p
             /\ order' \in Orders(p.tables)
             /\ pc' = "resolve"
             /\ UNCHANGED <<connections, conns, calls, cause, outcome>>
  /\ UNCHANGED <<config_vars, admin, query, table_info, conn_groups, group_i, table_i,
                 group_dfs, dfs, tables_ordered, merged>>

\* lines 232-236
Resolve ==
  /\ pc = "resolve"
  /\ LET r == ResolveTableMappings(table_mapping, parsed.aliases, order, <<>>)
     IN IF ~r.ok
        THEN /\ Raise(r.error, None, connections, conns, calls)
             /\ UNCHANGED <<table_info, conn_groups, group_i, table_i>>
        ELSE /\ table_info' = r.table_info
             /\ conn_groups' = GroupTablesByConnection(r.table_info, <<>>)
             /\ group_i' = 1
             /\ table_i' = 1
             /\ pc' = "fetch"
             /\ UNCHANGED <<connections, conns, calls, cause, outcome>>
  /\ UNCHANGED <<config_vars, admin, query, parsed, order, group_dfs, dfs, tables_ordered,
                 merged>>

\* dict.update
RECURSIVE DictUpdate(_, _)
DictUpdate(d, e) ==
  IF e = <<>> THEN d ELSE DictUpdate(DictSet(d, Head(e)[1], Head(e)[2]), Tail(e))

\* lines 445-500, one turn of the loop of _execute_client_join: the
\* connection is opened, the statement executed, the frame kept
ClientFetch ==
  /\ pc = "fetch"
  /\ group_i <= Len(conn_groups)
  /\ LET tables == conn_groups[group_i][2]
         rules == ApplicableJoinRules(join_config, table_info)
         full_table == tables[table_i]
         info == DictGet(table_info, full_table)
         stmt == ClientStatement(parsed, table_info, full_table, rules, group_dfs)
         key == info.connection
         opened == ConnectionsAfterConnect(connections, conns, key)
         objs == Append(conns, NewConnection(key, TRUE))
         log == Append(calls, Call("connect", key, NoStatement, TRUE))
     IN /\ ~CheckDbJoinPossible(tables, rules)
        /\ \/ /\ key \notin DictKeys(connection_params)
              /\ Raise(msg_no_connection_key \o key, None, connections, conns, calls)
              /\ UNCHANGED <<connection_params, table_info, group_i, table_i,
                             group_dfs, dfs>>
           \/ /\ key \in DictKeys(connection_params)
              /\ connection_params' = ProfilesAfterGetConnection(connection_params, key)
              /\ Raise(msg_connect \o key \o ColonSp \o DriverError, DriverError,
                       connections, conns,
                       Append(calls, Call("connect", key, NoStatement, FALSE)))
              /\ UNCHANGED <<table_info, group_i, table_i, group_dfs, dfs>>
           \/ /\ key \in DictKeys(connection_params)
              /\ connection_params' = ProfilesAfterGetConnection(connection_params, key)
              /\ Raise(DriverError, DriverError, opened, objs,
                       Append(log, Call("execute", key, stmt, FALSE)))
              /\ UNCHANGED <<table_info, group_i, table_i, group_dfs, dfs>>
           \/ /\ key \in DictKeys(connection_params)
              /\ ValidSelect(Database, stmt)
              /\ connection_params' = ProfilesAfterGetConnection(connection_params, key)
              /\ LET df == PrefixColumns(BackendSelect(Database, stmt), info.alias)
                     local == DictSet(group_dfs, full_table, df)
                     last == table_i = Len(tables)
                 IN /\ table_info' = DictSet(table_info, full_table,
                                             [info EXCEPT !.columns = df.cols])
                    /\ group_dfs' = IF last THEN <<>> ELSE local
                    /\ dfs' = IF last THEN DictUpdate(dfs, local) ELSE dfs
                    /\ table_i' = IF last THEN 1 ELSE table_i + 1
                    /\ group_i' = IF last THEN group_i + 1 ELSE group_i
              /\ connections' = opened
              /\ conns' = objs
              /\ calls' = Append(log, Call("execute", key, stmt, TRUE))
              /\ UNCHANGED <<pc, cause, outcome>>
  /\ UNCHANGED <<table_mapping, join_config, admin, query, parsed, order, conn_groups,
                 tables_ordered, merged>>

\* _merge_results called while groups are still to be fetched
MergeBeforeFetchEnds ==
  /\ pc = "fetch"
  /\ \E found \in {TablesOrdered(order, dfs)} :
       IF Len(dfs) = 1
       THEN /\ merged' = dfs[1][2]
            /\ tables_ordered' = <<>>
            /\ pc' = "filter"
            /\ UNCHANGED <<connections, conns, calls, cause, outcome>>
       ELSE IF found = <<>>
       THEN /\ Raise(msg_index_error, None, connections, conns, calls)
            /\ UNCHANGED <<merged, tables_ordered>>
       ELSE /\ merged' = DictGet(dfs, found[1])
            /\ tables_ordered' = Tail(found)
            /\ pc' = IF Tail(found) = <<>> THEN "filter" ELSE "merge"
            /\ UNCHANGED <<connections, conns, calls, cause, outcome>>
  /\ UNCHANGED <<config_vars, admin, query, parsed, order, table_info, conn_groups,
                 group_i, table_i, group_dfs, dfs>>

\* line 244, _merge_results lines 506-516: a single frame is the result;
\* otherwise the first of the identifiers of the query that is a key of dfs
\* starts the accumulator
Merge ==
  /\ pc = "fetch"
  /\ group_i > Len(conn_groups)
  /\ \E found \in {TablesOrdered(order, dfs)} :
       IF Len(dfs) = 1
       THEN /\ merged' = dfs[1][2]
            /\ tables_ordered' = <<>>
            /\ pc' = "filter"
            /\ UNCHANGED <<connections, conns, calls, cause, outcome>>
       ELSE IF found = <<>>
       THEN /\ Raise(msg_index_error, None, connections, conns, calls)
            /\ UNCHANGED <<merged, tables_ordered>>
       ELSE /\ merged' = DictGet(dfs, found[1])
            /\ tables_ordered' = Tail(found)
            /\ pc' = IF Tail(found) = <<>> THEN "filter" ELSE "merge"
            /\ UNCHANGED <<connections, conns, calls, cause, outcome>>
  /\ UNCHANGED <<config_vars, admin, query, parsed, order, table_info, conn_groups,
                 group_i, table_i, group_dfs, dfs>>

\* _merge_results lines 518-571: one turn of the loop
MergeNext ==
  /\ pc = "merge"
  /\ \E join_keys \in {GetJoinKeys(parsed, table_info, Head(tables_ordered), merged.cols)},
        by_rule \in {RuleForMerge(ApplicableJoinRules(join_config, table_info),
                                  table_info, dfs, Head(tables_ordered), merged)} :
       \E m \in {MergeStep(DictGet(dfs, Head(tables_ordered)), join_keys, by_rule, merged)} :
         IF ~m.ok
         THEN /\ Raise(m.error, None, connections, conns, calls)
              /\ UNCHANGED <<merged, tables_ordered>>
         ELSE /\ merged' = m.df
              /\ tables_ordered' = Tail(tables_ordered)
              /\ pc' = IF Tail(tables_ordered) = <<>> THEN "filter" ELSE "merge"
              /\ UNCHANGED <<connections, conns, calls, cause, outcome>>
  /\ UNCHANGED <<config_vars, admin, query, parsed, order, table_info, conn_groups,
                 group_i, table_i, group_dfs, dfs>>

\* merged.empty
IsEmptyFrame(df) == df.cols = <<>> \/ df.rows = <<>>

\* lines 248-257 and 264-265: the filter, the final form, the return and
\* the finally block
FilterAndReturn ==
  /\ pc = "filter"
  /\ outcome' = [kind |-> "returned",
                 result |-> FillNa(IF ~IsEmptyFrame(merged) /\ parsed.where # <<>>
                                   THEN ApplyGlobalWhere(merged, parsed.where)
                                   ELSE merged)]
  /\ pc' = "done"
  /\ \E failing \in SUBSET OpenInMap(connections, conns) :
       conns' = ObjectsAfterClose(connections, conns, failing)
  /\ connections' = MapAfterClose(connections)
  /\ UNCHANGED <<config_vars, admin, query, parsed, order, table_info, conn_groups,
                 group_i, table_i, group_dfs, dfs, tables_ordered, merged, calls,
                 cause>>

\* the caller has the result or the error; the objects of the query are
\* garbage
Finish ==
  /\ pc = "done"
  /\ pc' = "idle" /\ query' = <<>> /\ parsed' = NoParse /\ order' = <<>>
  /\ table_info' = <<>> /\ conn_groups' = <<>> /\ group_i' = 0 /\ table_i' = 0
  /\ group_dfs' = <<>> /\ dfs' = <<>> /\ tables_ordered' = <<>>
  /\ merged' = EmptyFrame /\ calls' = <<>>
  /\ cause' = None /\ outcome' = NoOutcome
  /\ conns' = <<>>
  /\ UNCHANGED <<config_vars, connections, admin>>

\* _execute_db_join: one connection, one statement for the whole group
DbJoinFetch ==
  /\ pc = "fetch"
  /\ group_i <= Len(conn_groups)
  /\ LET tables == conn_groups[group_i][2]
         key == conn_groups[group_i][1]
         rules == ApplicableJoinRules(join_config, table_info)
         stmt == DbJoinStatement(parsed, table_info, key, tables, rules)
         opened == ConnectionsAfterConnect(connections, conns, key)
         objs == Append(conns, NewConnection(key, TRUE))
         log == Append(calls, Call("connect", key, NoStatement, TRUE))
     IN /\ CheckDbJoinPossible(tables, rules)
        /\ \/ /\ key \notin DictKeys(connection_params)
              /\ Raise(msg_no_connection_key \o key, None, connections, conns, calls)
              /\ UNCHANGED <<connection_params, table_info, group_i, dfs>>
           \/ /\ key \in DictKeys(connection_params)
              /\ connection_params' = ProfilesAfterGetConnection(connection_params, key)
              /\ Raise(msg_connect \o key \o ColonSp \o DriverError, DriverError,
                       connections, conns,
                       Append(calls, Call("connect", key, NoStatement, FALSE)))
              /\ UNCHANGED <<table_info, group_i, dfs>>
           \/ /\ key \in DictKeys(connection_params)
              /\ connection_params' = ProfilesAfterGetConnection(connection_params, key)
              /\ Raise(DriverError, DriverError, opened, objs,
                       Append(log, Call("execute", key, stmt, FALSE)))
              /\ UNCHANGED <<table_info, group_i, dfs>>
           \/ /\ key \in DictKeys(connection_params)
              /\ ValidJoin(Database, stmt)
              /\ connection_params' = ProfilesAfterGetConnection(connection_params, key)
              /\ LET frames == SplitAll(parsed, table_info, tables,
                                        BackendJoin(Database, stmt))
                 IN /\ table_info' = SetColumns(table_info, frames)
                    /\ dfs' = DictUpdate(dfs, frames)
              /\ group_i' = group_i + 1
              /\ connections' = opened
              /\ conns' = objs
              /\ calls' = Append(log, Call("execute", key, stmt, TRUE))
              /\ UNCHANGED <<pc, cause, outcome>>
  /\ UNCHANGED <<table_mapping, join_config, admin, query, parsed, order, conn_groups,
                 table_i, group_dfs, tables_ordered, merged>>

\* ------------------------------------------------------------------------
\* The connection window (src/gui/main_window.py)
\* ------------------------------------------------------------------------

\* reconnect_connection: the connection of the map is closed and removed,
\* then get_connection opens a new one
reconnect_connection(conn_name) ==
  /\ AdminEnabled
  /\ conn_name \in DictKeys(connection_params)
  /\ LET closed == IF conn_name \in DictKeys(connections)
                   THEN [conns EXCEPT ![DictGet(connections, conn_name)] =
                           [@ EXCEPT !.closed = TRUE, !.closes = @ + 1]]
                   ELSE conns
         removed == DictDel(connections, conn_name)
     IN \/ /\ conns' = closed
           /\ connections' = removed
           /\ Ended("reconnect_connection", "error")
        \/ /\ conns' = Append(closed, NewConnection(conn_name, FALSE))
           /\ connections' = ConnectionsAfterConnect(removed, closed, conn_name)
           /\ Ended("reconnect_connection", "ok")
  /\ connection_params' = ProfilesAfterGetConnection(connection_params, conn_name)
  /\ UNCHANGED <<table_mapping, join_config, query_vars>>

\* ------------------------------------------------------------------------
\* The system
\* ------------------------------------------------------------------------

\* the arguments of the configuration operations
ConnectionNames == {db1, db2}

ParamSets == {RequiredParams, {"host", "dbname"}}

TableNames == {public_users, public_orders, sales_users}

RuleTables == {<<public_users, public_orders>>, <<public_orders, public_users>>,
               <<public_users>>, <<sales_users, public_users>>,
               <<sales_users, public_orders, public_users>>}

RuleKeys == {c_id, c_user_id}

RuleIndexes == {0, 1}

Next ==
  \/ \E name \in ConnectionNames, params \in ParamSets : add_connection(name, params)
  \/ \E name \in ConnectionNames : remove_connection(name)
  \/ \E table \in TableNames, name \in ConnectionNames : map_table(table, name)
  \/ \E tables \in RuleTables, key \in RuleKeys : add_join_rule(tables, key, "inner")
  \/ \E i \in RuleIndexes, b \in BOOLEAN : set_join_execution(i, b)
  \/ \E name \in ConnectionNames : reconnect_connection(name)
  \/ \E q \in Queries : StartQuery(q)
  \/ Parse
  \/ Resolve
  \/ ClientFetch
  \/ DbJoinFetch
  \/ Merge
  \/ MergeNext
  \/ FilterAndReturn
  \/ Finish

Spec == Init /\ [][Next]_vars

\* ------------------------------------------------------------------------
\* Properties
\* ------------------------------------------------------------------------

\* the positions of the calls of the query that executed a statement
Executions == {i \in 1..Len(calls) : calls[i].op = "execute"}

\* C1: when execute_query has returned or raised, close() was called exactly
\* once on every connection that was opened during the call
C1_EveryOpenedConnectionClosedOnce ==
  pc = "done" =>
    \A j \in 1..Len(conns) : conns[j].in_query => conns[j].closes = 1

\* C2: when execute_query has returned or raised, the connection map is
\* empty and close() was called on the connection the map held for every
\* backend, which is the last one opened for it
C2_CleanupEmptiesMap ==
  pc = "done" =>
    /\ connections = <<>>
    /\ \A j \in 1..Len(conns) :
         (\A k \in (j + 1)..Len(conns) : conns[k].key # conns[j].key)
           => conns[j].closes >= 1

\* a query that fetched and then failed, with its connection closed
C2_Witness ==
  /\ pc = "done"
  /\ outcome.kind = "raised"
  /\ \E j \in 1..Len(conns) : conns[j].in_query /\ conns[j].closes = 1

\* C3: a connect or an execute that raised is the last backend call of the
\* query, which has ended without a result and with one error whose text
\* ends with the text of the driver error followed by the elapsed time
C3_BackendErrorAbortsQuery ==
  \A i \in 1..Len(calls) :
    ~calls[i].ok =>
      /\ i = Len(calls)
      /\ pc = "done"
      /\ outcome.kind = "raised"
      /\ EndsWith(outcome.error, DriverError \o ElapsedSuffix)

\* the second statement of a query raised after the first one was fetched
C3_Witness ==
  /\ pc = "done"
  /\ cause = DriverError
  /\ Len(calls) >= 4
  /\ calls[2].ok /\ calls[2].op = "execute"
  /\ ~calls[Len(calls)].ok /\ calls[Len(calls)].op = "execute"

C4_Candidates(t) == {k \in DictKeys(table_mapping) : LastSegment(k) = LastSegment(t)}

C4_Resolves(t) == t \in DictKeys(table_mapping) \/ Cardinality(C4_Candidates(t)) = 1

C4_KeyOf(t) ==
  IF t \in DictKeys(table_mapping) THEN t ELSE CHOOSE k \in C4_Candidates(t) : TRUE

C4_Substituted ==
  /\ pc = "fetch"
  /\ \E t \in Range(order) : t \notin DictKeys(table_mapping) /\ C4_KeyOf(t) \in DictKeys(table_info)

\* the label of the frame a name of the predicate denotes: the name itself,
\* or the only label with its column name
C5_Labels(df, name) ==
  IF name \in Range(df.cols) THEN {name}
  ELSE {l \in Range(df.cols) : LastSegment(l) = LastSegment(name)}

C5_RowSatisfies(df, r, where_clause) ==
  LET fr == Fragments(where_clause)
  IN \A i \in 1..Len(fr) :
       /\ Len(fr[i]) = 3
       /\ Cardinality(C5_Labels(df, fr[i][1])) = 1
       /\ \A l \in C5_Labels(df, fr[i][1]) :
            Compare(df.rows[r][ColIndex(df.cols, l)], fr[i][2], fr[i][3])

\* C5: every row of the result of a query with a WHERE predicate and a
\* non-empty merged table satisfies every fragment of the predicate
C5_ResultSatisfiesWhere ==
  (pc = "done" /\ outcome.kind = "returned" /\ parsed.where # <<>>
     /\ ~IsEmptyFrame(merged)) =>
    \A r \in 1..Len(outcome.result.rows) :
      C5_RowSatisfies(outcome.result, r, parsed.where)

\* the left join of users with orders on users.id = orders.user_id, under
\* the labels users.id, users.name, orders.id, orders.user_id, orders.product
C6_Labels ==
  <<<<"u", "s", "e", "r", "s">> \o Dot \o c_id,
    <<"u", "s", "e", "r", "s">> \o Dot \o c_name,
    <<"o", "r", "d", "e", "r", "s">> \o Dot \o c_id,
    <<"o", "r", "d", "e", "r", "s">> \o Dot \o c_user_id,
    <<"o", "r", "d", "e", "r", "s">> \o Dot \o c_product>>

C6_LeftJoinRows ==
  Flatten([u \in 1..Len(UsersRows) |->
             LET matches == SelectIdx(OrdersRows,
                                      [o \in 1..Len(OrdersRows) |->
                                         OrdersRows[o][2] = UsersRows[u][1]], 1)
             IN IF matches = <<>>
                THEN <<UsersRows[u] \o <<NullText, NullText, NullText>>>>
                ELSE [m \in 1..Len(matches) |-> UsersRows[u] \o matches[m]]])

C6_Count(rows, row) == Cardinality({i \in 1..Len(rows) : rows[i] = row})

\* C6: with users and orders under a left rule of key user_id and fetched
\* by single-table statements, the result of
\* SELECT * FROM public.users, public.orders holds exactly the rows
\* of the left join of users with orders: one row per order of a user, one
\* null-padded row for a user without order
C6_ClientJoinIsLeftJoin ==
  (/\ pc = "done"
   /\ outcome.kind = "returned"
   /\ query = Q_two_tables
   /\ {public_users, public_orders} \subseteq DictKeys(table_mapping)
   /\ \E i \in 1..Len(join_config) :
        /\ join_config[i].key = c_user_id
        /\ Range(join_config[i].tables) = {public_users, public_orders}
        /\ join_config[i].join_type = "left"
        /\ ~join_config[i].execute_in_db
   /\ \A i \in Executions : "table" \in DOMAIN calls[i].stmt) =>
    /\ Range(C6_Labels) \subseteq Range(outcome.result.cols)
    /\ LET rows == Project(outcome.result, C6_Labels).rows
       IN /\ Len(rows) = Len(C6_LeftJoinRows)
          /\ \A i \in 1..Len(rows) :
               C6_Count(rows, rows[i]) = C6_Count(C6_LeftJoinRows, rows[i])

\* the alias each SELECT * query over public.users gives the table
C7_Alias ==
  <<<<Q_users, <<"u", "s", "e", "r", "s">>>>,
    <<Q_users_alias, <<"u">>>>,
    <<Q_where_name, <<"u", "s", "e", "r", "s">>>>,
    <<Q_where_id, <<"u", "s", "e", "r", "s">>>>>>

\* C7: a SELECT * query over the mapped table public.users that returned
\* executed one statement and its result has the labels alias.id, alias.name:
\* the columns of the backend under the alias of the query, or under the
\* base name users when the query gives none
C7_SelectStarLabels ==
  (/\ pc = "done"
   /\ outcome.kind = "returned"
   /\ query \in DictKeys(C7_Alias)
   /\ public_users \in DictKeys(table_mapping)) =>
    /\ Cardinality(Executions) = 1
    /\ outcome.result.cols = <<DictGet(C7_Alias, query) \o Dot \o c_id,
                               DictGet(C7_Alias, query) \o Dot \o c_name>>

\* C8: for the statements with one JOIN public.orders [AS] o ON ..., the
\* value of parse_sql has one join, of public.orders, and the aliases u of
\* public.users and o of public.orders
C8_JoinParsed ==
  (query \in {Q_join_no_as, Q_join_as} /\ pc \notin {"idle", "parse"}) =>
    /\ parsed.ok
    /\ Len(parsed.joins) = 1
    /\ parsed.joins[1].table = public_orders
    /\ <<<<"u">>, public_users>> \in Range(parsed.aliases)
    /\ <<<<"o">>, public_orders>> \in Range(parsed.aliases)

\* the fragments of the WHERE that hold the alias followed by a dot, or no dot
C9_Expected(where_clause, alias) ==
  LET tokens == NonEmpty(StripAll(SplitOn(where_clause, AndSep)))
  IN JoinWith(SelectIdx(tokens,
                        [i \in 1..Len(tokens) |->
                           \/ Contains(tokens[i], alias \o Dot)
                           \/ ~Contains(tokens[i], Dot)], 1),
              AndSep)

\* C9: the predicate of every single-table fetch is the conjunction of the
\* fragments of the WHERE that hold the alias of the table followed by a dot
\* or hold no dot
C9_PushedPredicate ==
  \A i \in Executions :
    "table" \in DOMAIN calls[i].stmt =>
      \A k \in 1..Len(table_info) :
        table_info[k][2].schema \o Dot \o table_info[k][2].table_name = calls[i].stmt.table
          => calls[i].stmt.where = C9_Expected(parsed.where, table_info[k][2].alias)

\* C10: a step that changes the connection profiles, the table mapping or
\* the join rules is a step of one of the five configuration operations; no
\* step of execute_query changes them
C10_ConfigChangedOnlyByAdmin ==
  [][config_vars' # config_vars =>
       /\ pc = "idle" /\ pc' = "idle"
       /\ admin'.n = admin.n + 1
       /\ admin'.op \in {"add_connection", "remove_connection", "map_table",
                         "add_join_rule", "set_join_execution"}]_vars

\* a query that opened a connection from a profile has ended
C10_Witness ==
  /\ pc = "done"
  /\ connection_params # <<>>
  /\ \E i \in 1..Len(calls) : calls[i].op = "connect" /\ calls[i].ok


\* the tables of the backend group being fetched
C11_Group == Range(conn_groups[group_i][2])

\* some rule whose tables are all tables of the query is marked pushdown and
\* lists tables of the group only
C11_PushdownRule ==
  \E i \in 1..Len(join_config) :
     /\ Range(join_config[i].tables) \subseteq DictKeys(table_info)
     /\ join_config[i].execute_in_db
     /\ Range(join_config[i].tables) \subseteq C11_Group

\* C11: a statement executed for a backend group of more than one table is
\* the one in-database JOIN statement of the group if and only if some rule
\* applicable to the query is marked pushdown and its table set is a subset
\* of the tables of the group; otherwise it is the statement of one table
C11_PushdownIffRuleWithinGroup ==
  [][(/\ pc = "fetch"
      /\ group_i <= Len(conn_groups)
      /\ Len(conn_groups[group_i][2]) > 1
      /\ Len(calls') > Len(calls)
      /\ calls'[Len(calls')].op = "execute")
     => (("tables" \in DOMAIN calls'[Len(calls')].stmt) <=> C11_PushdownRule)]_vars

\* the identifiers of the query in the order in which its text declares them
C12_Declared ==
  CHOOSE s \in Orders(parsed.tables) :
    \A i, j \in 1..Len(s) : i < j => Find(query, s[i], 1) < Find(query, s[j], 1)

\* the declared identifiers that have a frame
C12_DeclaredFetched == TablesOrdered(C12_Declared, dfs)

\* C12: when more than one frame exists the merger takes the tables in the
\* order in which the FROM clause declares them: the accumulator starts with
\* the columns of the first declared table and the tables still to merge are
\* the rest of the declaration order
C12_MergeInDeclarationOrder ==
  pc = "merge" =>
    LET d == C12_DeclaredFetched
        first == DictGet(dfs, d[1]).cols
    IN /\ Len(merged.cols) >= Len(first)
       /\ SubSeq(merged.cols, 1, Len(first)) = first
       /\ tables_ordered = SubSeq(d, Len(d) - Len(tables_ordered) + 1, Len(d))

\* the keys _get_join_keys resolves for the table about to be merged
C13_Keys == GetJoinKeys(parsed, table_info, Head(tables_ordered), merged.cols)

\* C13: when an explicit JOIN ... ON names the table being merged and its
\* condition equates a column of the alias of this table with a column of
\* the accumulator, the resolved left keys are columns of the accumulator,
\* the resolved right keys are columns of the frame of this table, and the
\* merge step completes with the left-merge on them
C13_ExplicitJoinMergesOnKeys ==
  [][(pc = "merge" /\ C13_Keys.left_keys # <<>>)
     => /\ Range(C13_Keys.left_keys) \subseteq Range(merged.cols)
        /\ Range(C13_Keys.right_keys)
             \subseteq Range(DictGet(dfs, Head(tables_ordered)).cols)
        /\ pc' \in {"merge", "filter"}
        /\ merged' = DropDropColumns(PdMergeLeft(merged, DictGet(dfs, Head(tables_ordered)),
                                                 C13_Keys.left_keys,
                                                 C13_Keys.right_keys).df)]_vars

\* the tables already merged into the accumulator
C14_Merged ==
  LET all == TablesOrdered(order, dfs)
  IN {all[i] : i \in 1..(Len(all) - Len(tables_ordered))}

\* the key pairs by which an applicable rule links the table about to be
\* merged to an already merged table, the key column present on both sides
C14_Links ==
  LET table == Head(tables_ordered)
      this == DictGet(table_info, table).alias
  IN {<<DictGet(table_info, other).alias \o Dot \o join_config[i].key,
        this \o Dot \o join_config[i].key>> :
        <<i, other>> \in
          {p \in (1..Len(join_config)) \X C14_Merged :
             /\ Range(join_config[p[1]].tables) \subseteq DictKeys(table_info)
             /\ table \in Range(join_config[p[1]].tables)
             /\ p[2] \in Range(join_config[p[1]].tables)
             /\ p[2] # table
             /\ DictGet(table_info, p[2]).alias \o Dot \o join_config[p[1]].key
                  \in Range(merged.cols)
             /\ this \o Dot \o join_config[p[1]].key
                  \in Range(DictGet(dfs, table).cols)}}

\* C14: a table without explicit JOIN keys that an applicable rule links to
\* an already merged table is left-merged on other_alias.key = this_alias.key
\* and not concatenated, whichever position the merged table has in the
\* rule; stated for the runs that merge in the order of the FROM clause
C14_RuleLinksToAnyMergedTable ==
  [][(/\ pc = "merge"
      /\ order = C12_Declared
      /\ GetJoinKeys(parsed, table_info, Head(tables_ordered), merged.cols).left_keys = <<>>
      /\ C14_Links # {})
     => \E link \in C14_Links :
          merged' = DropDropColumns(PdMergeLeft(merged, DictGet(dfs, Head(tables_ordered)),
                                                <<link[1]>>, <<link[2]>>).df)]_vars

\* row r of a frame, null-filled past its last row
C15_Row(df, r) == IF r <= Len(df.rows) THEN df.rows[r] ELSE [j \in 1..Len(df.cols) |-> NaN]

\* neither an explicit JOIN condition nor a join rule yields keys for the
\* table about to be merged
C15_NoKeys ==
  /\ pc = "merge"
  /\ GetJoinKeys(parsed, table_info, Head(tables_ordered), merged.cols).left_keys = <<>>
  /\ ~RuleForMerge(ApplicableJoinRules(join_config, table_info), table_info, dfs,
                   Head(tables_ordered), merged).found

\* C15: without keys the merger concatenates by row position: row i of the
\* new accumulator is row i of the old one followed by row i of the table,
\* null-filled where one side is shorter, so the row count is the maximum of
\* the two row counts and never their product
C15_ConcatByRowPosition ==
  [][C15_NoKeys =>
       LET a == merged
           b == DictGet(dfs, Head(tables_ordered))
           n == IF Len(a.rows) > Len(b.rows) THEN Len(a.rows) ELSE Len(b.rows)
       IN /\ pc' \in {"merge", "filter"}
          /\ merged'.cols = a.cols \o b.cols
          /\ Len(merged'.rows) = n
          /\ \A r \in 1..n : merged'.rows[r] = C15_Row(a, r) \o C15_Row(b, r)]_vars

\* a concatenation of two frames of different row counts has happened
C15_Witness ==
  /\ pc = "filter"
  /\ Len(dfs) = 2
  /\ parsed.joins = <<>>
  /\ ApplicableJoinRules(join_config, table_info) = <<>>
  /\ Len(dfs[1][2].rows) # Len(dfs[2][2].rows)
  /\ Len(merged.cols) = Len(dfs[1][2].cols) + Len(dfs[2][2].cols)
  /\ \E r \in 1..Len(merged.rows) : NaN \in Range(merged.rows[r])

\* the table whose statement the client-side path executes next
C16_Table == conn_groups[group_i][2][table_i]

\* an applicable rule holds the table together with a table fetched earlier
\* in this group, the filter is on alias.key of that rule, and the
\* parameter is the set of the values of the earlier table's column
\* other_alias.key
C16_Justified(stmt) ==
  \E i \in 1..Len(join_config), other \in DictKeys(group_dfs) :
     LET rule == join_config[i]
         other_col == DictGet(table_info, other).alias \o Dot \o rule.key
         other_df == DictGet(group_dfs, other)
     IN /\ Range(rule.tables) \subseteq DictKeys(table_info)
        /\ C16_Table \in Range(rule.tables)
        /\ other \in Range(rule.tables)
        /\ other # C16_Table
        /\ stmt.in_col = DictGet(table_info, C16_Table).alias \o Dot \o rule.key
        /\ other_col \in Range(other_df.cols)
        /\ Range(stmt.params)
             = {other_df.rows[r][ColIndex(other_df.cols, other_col)] :
                  r \in 1..Len(other_df.rows)}

\* C16: in the client-side path the statement of a table carries an
\* alias.key IN filter only if an applicable rule holds the table together
\* with a table fetched earlier in the same group, and then its parameter is
\* exactly the set of the distinct values of that table's other_alias.key
\* column; the first table of a group carries no IN filter
C16_InFilterFromEarlierTable ==
  [][(/\ pc = "fetch"
      /\ group_i <= Len(conn_groups)
      /\ Len(calls') > Len(calls)
      /\ calls'[Len(calls')].op = "execute"
      /\ "table" \in DOMAIN calls'[Len(calls')].stmt)
     => LET stmt == calls'[Len(calls')].stmt
        IN /\ stmt.in_col # None => C16_Justified(stmt)
           /\ table_i = 1 => stmt.in_col = None]_vars

\* C17: the merge stage and the post-merge filter stage start only when
\* every backend fetch of every group has completed: when they are entered
\* every resolved table has its frame and no group is left, and while they
\* run no backend call is made
C17_MergeAfterAllFetches ==
  [][/\ (pc' \in {"merge", "filter"}
           => /\ group_i' > Len(conn_groups')
              /\ DictKeys(table_info') \subseteq DictKeys(dfs'))
     /\ (pc \in {"merge", "filter"} => calls' = calls)]_vars

\* the filter stage of a query whose tables were fetched from two backends
C17_Witness ==
  /\ pc = "filter"
  /\ Len(conn_groups) = 2
  /\ \A g \in 1..2 : \E i \in Executions : calls[i].key = conn_groups[g][1] /\ calls[i].ok
  /\ Len(merged.cols) > 2

\* what each query declares: its table identifiers as written, each with
\* the alias the query binds to it, None when it binds none
C18_Declared ==
  <<<<Q_users, <<<<public_users, None>>>>>>,
    <<Q_users_alias, <<<<public_users, <<"u">>>>>>>>,
    <<Q_unqualified, <<<<<<"u", "s", "e", "r", "s">>, <<"u">>>>>>>>,
    <<Q_two_tables, <<<<public_users, None>>, <<public_orders, None>>>>>>,
    <<Q_join_no_as, <<<<public_users, <<"u">>>>, <<public_orders, <<"o">>>>>>>>,
    <<Q_join_as, <<<<public_users, <<"u">>>>, <<public_orders, <<"o">>>>>>>>,
    <<Q_where_product, <<<<public_orders, None>>, <<public_users, <<"u">>>>>>>>,
    <<Q_where_name, <<<<public_users, None>>>>>>,
    <<Q_where_id, <<<<public_users, <<"u", "s", "e", "r", "s">>>>>>>>,
    <<Q_three, <<<<public_users, None>>, <<sales_users, <<"s">>>>,
                 <<public_orders, None>>>>>>,
    <<Q_same_name, <<<<public_users, None>>, <<sales_users, None>>>>>>,
    <<Q_where_qualified, <<<<public_users, <<"u", "s", "e", "r", "s">>>>>>>>,
    <<Q_unqualified_two, <<<<<<"u", "s", "e", "r", "s">>, None>>, <<public_orders, None>>>>>>>>

\* C18: the alias of the binding of every referenced table is the alias the
\* query binds to its identifier, and the bare table name when the query
\* binds none; also for an identifier written without schema and resolved to
\* its only mapping key.  Stated for the identifiers that alone resolve to
\* their key
C18_AliasOfBinding ==
  (pc \in {"fetch", "merge", "filter"}) =>
    LET declared == DictGet(C18_Declared, query)
    IN \A i \in 1..Len(declared) :
         LET key == C4_KeyOf(declared[i][1])
         IN (/\ key \in DictKeys(table_info)
             /\ \A j \in 1..Len(declared) : j # i => C4_KeyOf(declared[j][1]) # key)
            => DictGet(table_info, key).alias
                 = IF declared[i][2] = None THEN LastSegment(key) ELSE declared[i][2]

\* C19: within the bindings resolved for one query no two distinct tables
\* have the same alias, also when two unaliased tables of different schemas
\* share their bare table name
C19_AliasesUnique ==
  (pc \in {"fetch", "merge", "filter"}) =>
    \A i, j \in 1..Len(table_info) :
       i # j => table_info[i][2].alias # table_info[j][2].alias

\* the positions of the configured rules all of whose tables are resolved
\* tables of the query
C20_Applying ==
  {i \in 1..Len(join_config) :
     \A t \in Range(join_config[i].tables) : t \in DictKeys(table_info)}

\* C20: _get_applicable_join_rules returns exactly the configured rules all
\* of whose tables are among the resolved tables of the query, in the order
\* of the configuration; an IN filter or an in-database JOIN statement of the
\* query comes from such a rule only
C20_ApplicableRules ==
  (pc \in {"fetch", "merge", "filter"}) =>
    LET app == ApplicableJoinRules(join_config, table_info)
    IN /\ Len(app) = Cardinality(C20_Applying)
       /\ \E f \in [1..Len(app) -> C20_Applying] :
            /\ \A k, l \in 1..Len(app) : k < l => f[k] < f[l]
            /\ \A k \in 1..Len(app) : app[k] = join_config[f[k]]
       /\ \A c \in Executions :
            /\ "tables" \in DOMAIN calls[c].stmt
                 => \E i \in C20_Applying : join_config[i].execute_in_db
            /\ ("table" \in DOMAIN calls[c].stmt /\ calls[c].stmt.in_col # None)
                 => \E i \in C20_Applying :
                      /\ calls[c].stmt.table \in Range(join_config[i].tables)
                      /\ EndsWith(calls[c].stmt.in_col, Dot \o join_config[i].key)

\* two tables were fetched and merged under a configured rule that also
\* lists a table the query does not reference
C20_Witness ==
  /\ pc = "filter"
  /\ Len(table_info) = 2
  /\ Len(join_config) = 1
  /\ Range(join_config[1].tables) \cap DictKeys(table_info) # {}
  /\ ~(Range(join_config[1].tables) \subseteq DictKeys(table_info))
  /\ ApplicableJoinRules(join_config, table_info) = <<>>
  /\ Cardinality(Executions) = 2

\* the columns the query selects of a resolved table: those of the backend
\* table for *, the listed ones otherwise
C21_Selected(table) ==
  LET info == DictGet(table_info, table)
      columns == GetColumnsForTable(parsed.columns, info.alias, table)
  IN IF columns = <<Star>>
     THEN BackendTable(Database, info.connection,
                       info.schema \o Dot \o info.table_name).cols
     ELSE columns

\* C21: a backend group fetched on the pushdown path has executed exactly
\* one statement, and the frame of each of its tables holds exactly the
\* selected columns of that table, each labelled alias.column with the
\* column name of the backend, also for a SELECT * projection
C21_PushdownSplit ==
  (pc \in {"fetch", "merge", "filter", "done"}) =>
    \A c \in Executions :
       ("tables" \in DOMAIN calls[c].stmt /\ calls[c].ok) =>
         /\ Cardinality({e \in Executions : calls[e].key = calls[c].key}) = 1
         /\ \A g \in 1..Len(conn_groups) :
              conn_groups[g][1] = calls[c].key =>
                \A t \in Range(conn_groups[g][2]) :
                   /\ t \in DictKeys(dfs)
                   /\ DictGet(dfs, t).cols
                        = [k \in 1..Len(C21_Selected(t)) |->
                             DictGet(table_info, t).alias \o Dot \o C21_Selected(t)[k]]

\* C22: after every merge step no column with the suffix of a duplicate is
\* left, every column the accumulator had before the step is still there
\* under the same name at the same position, and the columns the step adds
\* come after them and are columns of the merged table
C22_MergeKeepsAccumulatorColumns ==
  [][(pc = "merge" /\ pc' \in {"merge", "filter"})
     => /\ Len(merged'.cols) >= Len(merged.cols)
        /\ SubSeq(merged'.cols, 1, Len(merged.cols)) = merged.cols
        /\ \A j \in 1..Len(merged'.cols) : ~EndsWith(merged'.cols[j], DropSuffix)
        /\ \A j \in (Len(merged.cols) + 1)..Len(merged'.cols) :
             merged'.cols[j] \in Range(DictGet(dfs, Head(tables_ordered)).cols)]_vars

\* a rule merged a table whose labels are those of the accumulator: the
\* duplicates of the join were dropped
C22_Witness ==
  /\ pc = "filter"
  /\ Len(dfs) = 2
  /\ dfs[1][2].cols = dfs[2][2].cols
  /\ dfs[1][2].cols # <<>>
  /\ ApplicableJoinRules(join_config, table_info) # <<>>
  /\ merged.cols = dfs[1][2].cols

\* the text holds a three-part qualified name: word.word.word
C23_ThreePart(s) ==
  \E i, j \in 1..Len(s) :
     /\ 1 < i /\ i + 1 < j /\ j < Len(s)
     /\ s[i] = "." /\ s[j] = "."
     /\ \A k \in (i - 1)..(j + 1) : k \notin {i, j} => IsWordChar(s[k])

\* C23: the where text that parse_sql returns holds no three-part qualified
\* name: a.b.c of the predicate is rewritten to a.b_c, so the predicate
\* public.users.name = 'Bob' is returned as public.users_name = 'Bob'
C23_ThreePartNamesRewritten ==
  (pc \in {"resolve", "fetch", "merge", "filter"}) =>
    /\ ~C23_ThreePart(parsed.where)
    /\ query = Q_where_qualified =>
         parsed.where = <<"p", "u", "b", "l", "i", "c", ".", "u", "s", "e", "r", "s", "_",
                          "n", "a", "m", "e", " ", "=", " ", "'", "B", "o", "b", "'">>

\* the rule keys of the merge step about to be taken
C24_ByRule ==
  RuleForMerge(ApplicableJoinRules(join_config, table_info), table_info, dfs,
               Head(tables_ordered), merged)

\* the accumulator row has no row of equal key in the table about to be
\* merged by a rule
C24_Unmatched(row) ==
  LET right == DictGet(dfs, Head(tables_ordered))
  IN /\ C24_ByRule.found
     /\ \A k \in 1..Len(right.rows) :
          right.rows[k][ColIndex(right.cols, C24_ByRule.right_keys[1])]
            # row[ColIndex(merged.cols, C24_ByRule.left_keys[1])]

\* C24: no merge step loses accumulator rows: every row the accumulator had
\* before a left-merge or a concatenation is the beginning of a row after
\* it, and a row without a match under the left join is there with
\* null-filled cells for the columns of the joined table
C24_MergeKeepsAccumulatorRows ==
  [][(pc = "merge" /\ pc' \in {"merge", "filter"})
     => \A i \in 1..Len(merged.rows) :
          \E k \in 1..Len(merged'.rows) :
             /\ Len(merged'.rows[k]) >= Len(merged.cols)
             /\ SubSeq(merged'.rows[k], 1, Len(merged.cols)) = merged.rows[i]
             /\ C24_Unmatched(merged.rows[i])
                  => \A j \in (Len(merged.cols) + 1)..Len(merged'.rows[k]) :
                       merged'.rows[k][j] = NaN]_vars

\* a left join by a rule left a row without match null-filled before a row
\* with a match
C24_Witness ==
  /\ pc = "filter"
  /\ ApplicableJoinRules(join_config, table_info) # <<>>
  /\ \E k, l \in 1..Len(merged.rows) :
       /\ k < l
       /\ merged.cols # <<>>
       /\ merged.rows[k][Len(merged.cols)] = NaN
       /\ merged.rows[l][Len(merged.cols)] # NaN

\* the applicable rules of the query, all marked for client-side execution
C25_ClientRules ==
  LET rules == ApplicableJoinRules(join_config, table_info)
  IN [i \in 1..Len(rules) |-> [rules[i] EXCEPT !.execute_in_db = FALSE]]

\* the two statements of the client-side path for the group of the query
C25_First == ClientStatement(parsed, table_info, conn_groups[1][2][1], C25_ClientRules, <<>>)

C25_FirstFrames ==
  <<<<conn_groups[1][2][1],
      PrefixColumns(BackendSelect(Database, C25_First),
                    DictGet(table_info, conn_groups[1][2][1]).alias)>>>>

C25_Second ==
  ClientStatement(parsed, table_info, conn_groups[1][2][2], C25_ClientRules, C25_FirstFrames)

C25_Frames ==
  Append(C25_FirstFrames,
         <<conn_groups[1][2][2],
           PrefixColumns(BackendSelect(Database, C25_Second),
                         DictGet(table_info, conn_groups[1][2][2]).alias)>>)

\* the result of the client-side path: the two frames merged in the order
\* of this run, filtered and null-filled
C25_ClientResult ==
  LET ordered == TablesOrdered(order, C25_Frames)
      acc == DictGet(C25_Frames, ordered[1])
      m == IF Len(ordered) < 2 THEN [df |-> acc]
           ELSE MergeStep(DictGet(C25_Frames, ordered[2]),
                          GetJoinKeys(parsed, table_info, ordered[2], acc.cols),
                          RuleForMerge(C25_ClientRules, table_info, C25_Frames,
                                       ordered[2], acc),
                          acc)
  IN FillNa(IF ~IsEmptyFrame(m.df) /\ parsed.where # <<>>
            THEN ApplyGlobalWhere(m.df, parsed.where) ELSE m.df)

\* C25: for a backend group of two tables linked by an applicable rule, a
\* query that returned on the pushdown path has the columns and, with their
\* multiplicities, the rows that the client-side path gives for the same
\* query, data and merge order
C25_PushdownEqualsClientSide ==
  (/\ pc = "done"
   /\ outcome.kind = "returned"
   /\ Len(conn_groups) = 1
   /\ Len(conn_groups[1][2]) = 2
   /\ \E c \in Executions : "tables" \in DOMAIN calls[c].stmt
   /\ ValidSelect(Database, C25_First)
   /\ ValidSelect(Database, C25_Second)
   /\ TablesOrdered(order, C25_Frames) # <<>>) =>
    /\ outcome.result.cols = C25_ClientResult.cols
    /\ Len(outcome.result.rows) = Len(C25_ClientResult.rows)
    /\ \A i \in 1..Len(outcome.result.rows) :
         C6_Count(outcome.result.rows, outcome.result.rows[i])
           = C6_Count(C25_ClientResult.rows, outcome.result.rows[i])

\* C26: every fetched table takes part in the merge: when more than one
\* frame was fetched, the merge does not end for want of a table to start
\* with, and the merged frame holds the columns of every fetched frame, also
\* when the frame of a table written without schema is stored under the
\* mapping key it was resolved to
C26_EveryFetchedTableMerged ==
  /\ (pc = "filter" /\ Len(dfs) > 1)
       => \A i \in 1..Len(dfs) : Range(dfs[i][2].cols) \subseteq Range(merged.cols)
  /\ (pc = "done" /\ Len(dfs) > 1 /\ outcome.kind = "raised")
       => ~StartsWith(outcome.error, msg_index_error)

\* the query cannot be parsed, or one of its identifiers is neither a mapping
\* key nor the holder of a single candidate
C27_Fails ==
  \/ ~ParseSql(query).ok
  \/ parsed.ok /\ \E t \in Range(order) : ~C4_Resolves(t)

C28_Consistent ==
  /\ \A i \in 1..Len(table_mapping) : table_mapping[i][2] \in DictKeys(connection_params)
  /\ \A i \in 1..Len(join_config) :
       Range(join_config[i].tables) \subseteq DictKeys(table_mapping)

\* C28: through add_connection, remove_connection, map_table and
\* add_join_rule every mapped table keeps a backend that has a profile and
\* every table of a join rule stays a mapping key, and an operation that is
\* rejected leaves the profiles, the mapping and the rules as they were
C28_ConfigurationStaysConsistent ==
  [][/\ C28_Consistent => C28_Consistent'
     /\ admin'.status = "rejected" => UNCHANGED config_vars]_vars

\* the join statements handed to a backend
C29_Joins == {i \in Executions : "on" \in DOMAIN calls[i].stmt}

\* C29: every ON condition of a pushed-down join statement relates two
\* aliases the statement declares in its own FROM/JOIN list, also when the
\* rule it is built from names a table of another backend, or names first a
\* table outside the group
C29_JoinUsesDeclaredAliases ==
  \A i \in C29_Joins :
    LET stmt == calls[i].stmt
        declared == {stmt.tables[j].alias : j \in 1..Len(stmt.tables)}
    IN \A j \in 1..Len(stmt.on) :
         stmt.on[j].left \in declared /\ stmt.on[j].right \in declared

\* the values the tables fetched earlier in the group hold in their
\* alias.key column, for the tables the rule ties to the table being fetched
C30_ValuesOf(rule) ==
  UNION {LET other_df == DictGet(group_dfs, other)
             other_col == DictGet(table_info, other).alias \o Dot \o rule.key
         IN IF other_col \in Range(other_df.cols)
            THEN {other_df.rows[r][ColIndex(other_df.cols, other_col)] :
                    r \in 1..Len(other_df.rows)}
            ELSE {} :
         other \in (DictKeys(group_dfs) \cap Range(rule.tables)) \ {C16_Table}}

\* C30: the IN filter of a client-side statement takes its column and all
\* its values from one join rule: some rule holding the table has the key of
\* the filtered column, and every value of the list is a value of that key
\* in a table the same rule ties to it; values collected under the key of
\* one rule are not the list of a filter on the key of another
C30_InFilterFromOneRule ==
  [][(/\ pc = "fetch"
      /\ group_i <= Len(conn_groups)
      /\ Len(calls') > Len(calls)
      /\ calls'[Len(calls')].op = "execute"
      /\ "in_col" \in DOMAIN calls'[Len(calls')].stmt
      /\ calls'[Len(calls')].stmt.in_col # None)
     => LET stmt == calls'[Len(calls')].stmt
        IN \E i \in 1..Len(join_config) :
             /\ C16_Table \in Range(join_config[i].tables)
             /\ stmt.in_col = DictGet(table_info, C16_Table).alias \o Dot
                                \o join_config[i].key
             /\ Range(stmt.params) \subseteq C30_ValuesOf(join_config[i])]_vars

====
